---- MODULE Spec2Model ----
(***************************************************************************)
(* metavisor-cli: the cleanup stack of package mv (QueueCleanup, Cleanup,  *)
(* cleanupStack) and the top-level calls that run a wrap / share-logs body *)
(* in a goroutine and race it against context cancellation.                *)
(***************************************************************************)
EXTENDS Integers, Sequences, FiniteSets, TLC

\* ------------------------------------------------------------------ bounds
\* Registrations made by the sequential driver of QueueCleanup / Cleanup.
MaxFuncs == 3
\* Cleanup calls made by the sequential driver.
MaxCleanups == 2
\* Goroutines that call QueueCleanup concurrently.
NumRoutines == 3
\* history counters count up to MaxCounted
MaxCounted == 3
\* DescribeInstanceStatus answers with at most MaxStatuses statuses
MaxStatuses == 1

VARIABLES
    heap,             \* the cleanupStack objects allocated so far
    stackedCleanups,  \* package variable: 0 is nil, else an index into heap
    ran,              \* ids of the cleanup functions invoked so far, in order
    \* sequential driver of the package API
    nextId, pending, lastReg, lastRan, lastSuccess, lastOp, calls, crashed,
    \* goroutines calling QueueCleanup concurrently
    gpc, gptr,
    \* a top-level call (wrap.Instance, wrap.Image, share.LogsAWS)
    kind,         \* which top-level call runs
    conf,         \* what the caller passed in and what the account holds
    cancelled,    \* ctx.Done() is closed
    cancelAt,     \* where the body was when ctx was cancelled (history)
    res,          \* the buffered result channel (capacity 1)
    mpc,          \* the calling goroutine: "select", "cleanup", "returned"
    cleanupArg,   \* the argument of the Cleanup call
    ret,          \* what the top-level call returns
    cleanups,     \* Cleanup calls made by the top-level call
    branch,       \* the case of the select the top-level call took (history)
    pc,           \* the body goroutine's position
    rootVolID,    \* instanceRootVolID read from the fetched instance
    failedAt,     \* the step whose error the body returned, or "none"
    registered,   \* functions passed to QueueCleanup by the body, in order
    latePush,     \* QueueCleanup was called after Cleanup had been called
    apiLog,       \* calls the body made on the AWS service (and scp), in order,
                  \* each with the error it returned
    cloud,        \* the AWS account: the instance's state and devices, the
                  \* volumes and the temporary resources that exist
    \* one convergence wait, turn by turn
    fn,           \* the wait that runs
    wpc,          \* "loop", "sleep" (in time.Sleep) or "returned"
    try,          \* the loop variable of the wait
    werr,         \* the error the wait returned
    lastObs,      \* <<what the last successful observation showed>>, or <<>>
    seen,         \* what the successful observations showed so far
    obsErrs,      \* the errors the failed observations returned so far
    slept,        \* the wait has called time.Sleep
    obsAfterCancel,   \* observations started after ctx was cancelled (history,
                      \* counted up to MaxCounted)
    sleptAfterCancel, \* time.Sleep was called after ctx was cancelled (history)
    \* one call of mv.GetInfo
    infoPc,       \* GetInfo: "start", "select", "parked" (blocked in the
                  \* select), "caseCtx" / "caseRes" (woken for that case),
                  \* "returned"
    fetchPc,      \* getLatestMVVersion: "session", "list", "latest",
                  \* "compare", "send", "done"
    infoCtx,      \* ctx.Err() of GetInfo's ctx: "nil", "Canceled",
                  \* "DeadlineExceeded"
    mvs,          \* the versions listAllMetavisors returned
    fetched,      \* the MaybeString getLatestMVVersion will send
    infoRes,      \* GetInfo's buffered channel res (capacity 1)
    out,          \* the Info GetInfo returns
    infoErr,      \* the error GetInfo returns
    infoCase,     \* the case the select took (history)
    doneBeforeArrival, \* ctx was done while nothing had been sent on res
                       \* (history)
    \* one call of mv.FormatMetavisors
    fmtPc,        \* "call" or "returned"
    fmtIn,        \* the arguments: mvs and withJSON
    fmtOut,       \* the string it returned
    \* one run of main's runWithInterrupt(ctx, f)
    command,      \* the function f that main passes
    rwPc,         \* position of runWithInterrupt
    fPc,          \* position of the goroutine that runs f
    fErr,         \* error of the top-level call made by f
    wg,           \* counter of the sync.WaitGroup
    runCancelled, \* cancel() of runWithInterrupt's ctx was called
    exited,       \* os.Exit was called
    signals,      \* interrupts the user has sent
    interrupted   \* the select received from the interrupt channel

stackVars == <<heap, stackedCleanups, ran>>
apiVars == <<nextId, pending, lastReg, lastRan, lastSuccess, lastOp, calls, crashed>>
concVars == <<gpc, gptr>>
waitVars == <<fn, wpc, try, werr, lastObs, seen, obsErrs, slept, obsAfterCancel,
              sleptAfterCancel>>
ctxVars == <<cancelled, cancelAt>>
mainVars == <<mpc, cleanupArg, ret, cleanups, branch>>
bodyVars == <<pc, rootVolID, failedAt>>
sagaVars == <<kind, conf, ctxVars, res, mainVars, bodyVars, registered, latePush,
              apiLog, cloud>>
infoVars == <<infoPc, fetchPc, infoCtx, mvs, fetched, infoRes, out, infoErr, infoCase,
              doneBeforeArrival>>
fmtVars == <<fmtPc, fmtIn, fmtOut>>
runVars == <<command, rwPc, fPc, fErr, wg, runCancelled, exited, signals, interrupted>>
vars == <<stackVars, apiVars, concVars, sagaVars, waitVars, infoVars, fmtVars, runVars>>

\* ------------------------------------------------------- package mv: stack
nil == 0

\* &cleanupStack{mutex: sync.Mutex{}, funcs: make([]cleanupFunc, 0)}
NewStack == [funcs |-> <<>>, size |-> 0]

\* cleanupFunc{f: f, onlyOnFail: onlyOnFail}; the body f is an id and whether
\* it panics when called.
CleanupFunc(id, panics, onlyOnFail) ==
    [f |-> [id |-> id, panics |-> panics], onlyOnFail |-> onlyOnFail]

NoFunc == CleanupFunc(0, FALSE, FALSE)

PushFront(s, f) == [funcs |-> <<f>> \o s.funcs, size |-> s.size + 1]

\* (s *cleanupStack) Push, under s.mutex
Push(s, f) == [funcs |-> Append(s.funcs, f), size |-> s.size + 1]

PopKeep(s) ==
    IF s.size = 0
    THEN [s |-> s, f |-> NoFunc, err |-> TRUE]
    ELSE [s |-> [funcs |-> s.funcs, size |-> s.size - 1],
          f |-> s.funcs[Len(s.funcs)], err |-> FALSE]

\* (s *cleanupStack) Pop, under s.mutex
Pop(s) ==
    IF s.size = 0
    THEN [s |-> s, f |-> NoFunc, err |-> TRUE]
    ELSE [s |-> [funcs |-> SubSeq(s.funcs, 1, s.size - 1), size |-> s.size - 1],
          f |-> s.funcs[s.size], err |-> FALSE]

\* (s *cleanupStack) Len
StackLen(s) == s.size

ShouldRunAlways(success, f) == TRUE

\* the condition of Cleanup's if: !success || (success && !f.onlyOnFail)
ShouldRun(success, f) == (~success) \/ (success /\ ~f.onlyOnFail)

\* The loop of Cleanup run to its end on stack s. It ends when Len is 0, or
\* when a cleanup function panics: Cleanup has no recover, so the panic
\* leaves the loop (and Cleanup) with the rest of the stack in place.
RECURSIVE CleanupLoop(_, _, _)
CleanupLoop(s, success, acc) ==
    IF StackLen(s) = 0
    THEN [s |-> s, ran |-> acc, panicked |-> FALSE]
    ELSE LET p == Pop(s) IN
         IF p.err
         THEN [s |-> p.s, ran |-> acc, panicked |-> FALSE]
         ELSE IF ShouldRun(success, p.f)
              THEN IF p.f.f.panics
                   THEN [s |-> p.s, ran |-> Append(acc, p.f.f.id), panicked |-> TRUE]
                   ELSE CleanupLoop(p.s, success, Append(acc, p.f.f.id))
              ELSE CleanupLoop(p.s, success, acc)

\* QueueCleanup as one step: create the stack when the package variable is
\* nil, then Push.
QueueCleanup(f) ==
    IF stackedCleanups = nil
    THEN /\ heap' = Append(heap, Push(NewStack, f))
         /\ stackedCleanups' = Len(heap) + 1
    ELSE /\ heap' = [heap EXCEPT ![stackedCleanups] = Push(@, f)]
         /\ UNCHANGED stackedCleanups

\* ------------------------------------------- sequential driver of the API
ApiInit ==
    /\ nextId = 1
    /\ pending = <<>>
    /\ lastReg = <<>>
    /\ lastRan = <<>>
    /\ lastSuccess = FALSE
    /\ lastOp = "none"
    /\ calls = 0
    /\ crashed = FALSE

StackInit ==
    /\ heap = <<>>
    /\ stackedCleanups = nil
    /\ ran = <<>>

ConcIdle ==
    /\ gpc = [g \in 1..NumRoutines |-> "done"]
    /\ gptr = [g \in 1..NumRoutines |-> nil]

\* No wait runs.
WaitIdle ==
    /\ fn = "none"
    /\ wpc = "returned"
    /\ try = 0
    /\ werr = "nil"
    /\ lastObs = <<>>
    /\ seen = {}
    /\ obsErrs = {}
    /\ slept = FALSE
    /\ obsAfterCancel = 0
    /\ sleptAfterCancel = FALSE

\* No GetInfo call runs.
InfoIdle ==
    /\ infoPc = "none"
    /\ fetchPc = "none"
    /\ infoCtx = "nil"
    /\ mvs = <<>>
    /\ fetched = <<>>
    /\ infoRes = <<>>
    /\ out = <<>>
    /\ infoErr = "nil"
    /\ infoCase = "none"
    /\ doneBeforeArrival = FALSE

\* No FormatMetavisors call runs.
FormatIdle ==
    /\ fmtPc = "none"
    /\ fmtIn = <<>>
    /\ fmtOut = <<>>

\* runWithInterrupt is not running.
RunIdle ==
    /\ command = "none"
    /\ rwPc = "none"
    /\ fPc = "none"
    /\ fErr = "nil"
    /\ wg = 0
    /\ runCancelled = FALSE
    /\ exited = FALSE
    /\ signals = 0
    /\ interrupted = FALSE

\* No top-level call runs.
SagaIdle ==
    /\ kind = "none"
    /\ conf = <<>>
    /\ cancelled = FALSE
    /\ cancelAt = "none"
    /\ res = <<>>
    /\ mpc = "returned"
    /\ cleanupArg = FALSE
    /\ ret = <<>>
    /\ cleanups = 0
    /\ branch = "none"
    /\ pc = "done"
    /\ rootVolID = "none"
    /\ failedAt = "none"
    /\ registered = <<>>
    /\ latePush = FALSE
    /\ apiLog = <<>>
    /\ cloud = [inst |-> "running", devRoot |-> "none", devSdf |-> "none",
                vols |-> {}, live |-> {}]

\* QueueCleanup(f, onlyOnFail) called from the one goroutine of the driver.
QueueCleanupCall(onlyOnFail, panics) ==
    /\ ~crashed
    /\ nextId <= MaxFuncs
    /\ LET f == CleanupFunc(nextId, panics, onlyOnFail) IN
        /\ QueueCleanup(f)
        /\ pending' = Append(pending, f)
    /\ nextId' = nextId + 1
    /\ lastOp' = "queue"
    /\ UNCHANGED <<ran, lastReg, lastRan, lastSuccess, calls, crashed, concVars, sagaVars, waitVars, infoVars, fmtVars, runVars>>

\* Cleanup(success) called from the one goroutine of the driver, to its end.
CleanupCall(success) ==
    /\ ~crashed
    /\ calls < MaxCleanups
    /\ calls' = calls + 1
    /\ lastOp' = "cleanup"
    /\ lastSuccess' = success
    /\ lastReg' = pending
    /\ pending' = <<>>
    /\ IF stackedCleanups = nil
       THEN /\ lastRan' = <<>>
            /\ UNCHANGED <<heap, ran, crashed>>
       ELSE LET r == CleanupLoop(heap[stackedCleanups], success, <<>>) IN
            /\ heap' = [heap EXCEPT ![stackedCleanups] = r.s]
            /\ lastRan' = r.ran
            /\ ran' = ran \o r.ran
            /\ crashed' = r.panicked
    /\ UNCHANGED <<stackedCleanups, nextId, concVars, sagaVars, waitVars, infoVars, fmtVars, runVars>>

InitStack == StackInit /\ ApiInit /\ ConcIdle /\ SagaIdle /\ WaitIdle /\ InfoIdle /\ FormatIdle /\ RunIdle

\* cleanup functions that return
NextStack ==
    \/ \E onlyOnFail \in BOOLEAN : QueueCleanupCall(onlyOnFail, FALSE)
    \/ \E success \in BOOLEAN : CleanupCall(success)

SpecStack == InitStack /\ [][NextStack]_vars

\* cleanup functions that may panic
NextPanic ==
    \/ \E onlyOnFail, panics \in BOOLEAN : QueueCleanupCall(onlyOnFail, panics)
    \/ \E success \in BOOLEAN : CleanupCall(success)

SpecPanic == InitStack /\ [][NextPanic]_vars

\* ------------------------------------ QueueCleanup from several goroutines
\* Each goroutine calls QueueCleanup once; its steps are the reads and writes
\* of the package variable, which no lock guards, and the Push, which the
\* stack's mutex makes one step.
InitConc ==
    /\ StackInit
    /\ ApiInit
    /\ gpc = [g \in 1..NumRoutines |-> "check"]
    /\ gptr = [g \in 1..NumRoutines |-> nil]
    /\ SagaIdle
    /\ WaitIdle
    /\ InfoIdle
    /\ FormatIdle
    /\ RunIdle

\* if stackedCleanups == nil
QCCheck(g) ==
    /\ gpc[g] = "check"
    /\ gpc' = [gpc EXCEPT ![g] = IF stackedCleanups = nil THEN "alloc" ELSE "load"]
    /\ UNCHANGED <<stackVars, apiVars, gptr, sagaVars, waitVars, infoVars, fmtVars, runVars>>

\* stackedCleanups = &cleanupStack{...}
QCAlloc(g) ==
    /\ gpc[g] = "alloc"
    /\ heap' = Append(heap, NewStack)
    /\ stackedCleanups' = Len(heap) + 1
    /\ gpc' = [gpc EXCEPT ![g] = "load"]
    /\ UNCHANGED <<ran, apiVars, gptr, sagaVars, waitVars, infoVars, fmtVars, runVars>>

\* the receiver of stackedCleanups.Push(...) is read
QCLoad(g) ==
    /\ gpc[g] = "load"
    /\ gptr' = [gptr EXCEPT ![g] = stackedCleanups]
    /\ gpc' = [gpc EXCEPT ![g] = "push"]
    /\ UNCHANGED <<stackVars, apiVars, sagaVars, waitVars, infoVars, fmtVars, runVars>>

\* Push on the stack that was read; goroutine g registers function g
QCPush(g, onlyOnFail) ==
    /\ gpc[g] = "push"
    /\ heap' = [heap EXCEPT ![gptr[g]] = Push(@, CleanupFunc(g, FALSE, onlyOnFail))]
    /\ gpc' = [gpc EXCEPT ![g] = "done"]
    /\ UNCHANGED <<stackedCleanups, ran, apiVars, gptr, sagaVars, waitVars, infoVars, fmtVars, runVars>>

NextConc ==
    \E g \in 1..NumRoutines :
        \/ QCCheck(g)
        \/ QCAlloc(g)
        \/ QCLoad(g)
        \/ \E onlyOnFail \in BOOLEAN : QCPush(g, onlyOnFail)

SpecConc == InitConc /\ [][NextConc]_vars

\* ------------------------------------------------------ the AWS account
\* What a call on the service can come to: the request took effect or not,
\* and the call returned nil, ErrNotAllowed or another error. A call that
\* returns nil took effect. A call given a context that is already cancelled
\* fails without effect; the cleanup functions pass context.Background().
Outcomes(ctxDone) ==
    IF ctxDone
    THEN {[eff |-> FALSE, err |-> "err"]}
    ELSE {[eff |-> TRUE, err |-> "nil"]} \cup
         [eff : BOOLEAN, err : {"ErrNotAllowed", "err"}]

Attached(c, v) == c.devRoot = v \/ c.devSdf = v

\* ec2 DetachVolume of v from the root device
DetachRoot(c, v) == IF c.devRoot = v THEN [c EXCEPT !.devRoot = "none"] ELSE c

\* ec2 AttachVolume of v at a device: v must exist and be free, the device too
AttachAt(c, v, dev) ==
    IF v \in c.vols /\ ~Attached(c, v) /\ c[dev] = "none"
    THEN [c EXCEPT ![dev] = v]
    ELSE c

\* ec2 DeleteVolume: a volume in use is not deleted
DeleteVol(c, v) == IF Attached(c, v) THEN c ELSE [c EXCEPT !.vols = @ \ {v}]

\* the instance and its devices as one DescribeInstances call shows them; the
\* block device mapping may show an attachment late
Observations(c) ==
    {[devRoot |-> r, devSdf |-> s] : r \in {c.devRoot, "none"}, s \in {c.devSdf, "none"}}

\* ------------------------------------------------------- top-level calls
\* wrap.GuestDeviceName is /dev/sdf; the root device is the instance's own.
maxTries == 60

Kinds == {"instance", "image", "logs"}

\* A token as isValidToken sees it: the number of parts between dots (0: the
\* empty string), how the middle part decodes ("raw": unpadded base64,
\* "std": padded base64 only, "bad": neither), whether the decoded payload is
\* a JSON object, and its brkt.token_type attribute ("absent", "nonstring",
\* or the string).
Token(parts, enc, json, type) ==
    [parts |-> parts, enc |-> enc, json |-> json, type |-> type]

EmptyToken == Token(0, "bad", FALSE, "absent")

tokenTypeValidValue == "launch"

ToLower(s) == IF s = "Launch" THEN "launch" ELSE s

isValidTokenAnyType(token) ==
    IF token.parts # 3 THEN FALSE
    ELSE IF token.enc = "bad" THEN FALSE
    ELSE IF ~token.json THEN FALSE
    ELSE token.type # "absent"

\* isValidToken: three parts, a payload that base64-decodes (raw, else
\* standard) to a JSON object whose token type is the string "launch" in any
\* letter case
isValidToken(token) ==
    IF token.parts # 3 THEN FALSE
    ELSE IF token.enc = "bad" THEN FALSE
    ELSE IF ~token.json THEN FALSE
    ELSE IF token.type = "absent" THEN FALSE
    ELSE IF token.type = "nonstring" THEN FALSE
    ELSE ToLower(token.type) = tokenTypeValidValue

\* if conf.Token != "" { if !isValidToken(conf.Token) { ErrInvalidLaunchToken } }
TokenAccepted(token) == token = EmptyToken \/ isValidToken(token)

\* the tokens a caller passes
Tokens ==
    { EmptyToken,
      Token(2, "raw", TRUE, "launch"),
      Token(3, "bad", FALSE, "absent"),
      Token(3, "raw", FALSE, "absent"),
      Token(3, "raw", TRUE, "absent"),
      Token(3, "raw", TRUE, "nonstring"),
      Token(3, "raw", TRUE, "other"),
      Token(3, "raw", TRUE, "launch"),
      Token(3, "std", TRUE, "Launch") }

\* What the caller passed and what the account holds when the call starts:
\* idOK: the id has the shape the call wants; amiOK: conf.MetavisorAMI is
\* empty or an AMI id; Token: conf.Token;
\* hasRoot, typeOK, sdfFree: the instance to wrap has a root device, an
\* allowed type, nothing at /dev/sdf; keyGiven: conf.AWSKeyName is set;
\* targetIsInstance: share-logs is given an instance, not a snapshot.
Confs(k) ==
    IF k = "logs"
    THEN [idOK : BOOLEAN, amiOK : {TRUE}, Token : {EmptyToken}, hasRoot : {TRUE},
          typeOK : {TRUE}, sdfFree : {TRUE}, keyGiven : BOOLEAN,
          targetIsInstance : BOOLEAN]
    ELSE [idOK : BOOLEAN, amiOK : BOOLEAN, Token : Tokens, hasRoot : BOOLEAN,
          typeOK : BOOLEAN, sdfFree : BOOLEAN, keyGiven : {FALSE},
          targetIsInstance : {TRUE}]

FirstPc(k) == CASE k = "instance" -> "new"
                [] k = "image" -> "new"
                [] k = "logs" -> "lVerify"

InitSaga ==
    /\ StackInit
    /\ ApiInit
    /\ ConcIdle
    /\ WaitIdle
    /\ InfoIdle
    /\ FormatIdle
    /\ RunIdle
    /\ kind \in Kinds
    /\ conf \in Confs(kind)
    /\ cancelled = FALSE
    /\ cancelAt = "none"
    /\ res = <<>>
    /\ mpc = "select"
    /\ cleanupArg = FALSE
    /\ ret = <<>>
    /\ cleanups = 0
    /\ branch = "none"
    /\ pc = FirstPc(kind)
    /\ rootVolID = "none"
    /\ failedAt = "none"
    /\ registered = <<>>
    /\ latePush = FALSE
    /\ apiLog = <<>>
    /\ cloud = [inst |-> "running",
                devRoot |-> IF conf.hasRoot THEN "vol-orig" ELSE "none",
                devSdf |-> IF conf.sdfFree THEN "none" ELSE "vol-other",
                vols |-> (IF conf.hasRoot THEN {"vol-orig"} ELSE {}) \cup
                         (IF conf.sdfFree THEN {} ELSE {"vol-other"}),
                live |-> IF kind = "logs" /\ ~conf.targetIsInstance THEN {"given"} ELSE {}]

MaybeString(result, error) == [Result |-> result, Error |-> error]

\* ---- the calling goroutine: select, Cleanup, return
CtxDoneBranchKeep == [arg |-> TRUE, ret |-> MaybeString("", "ErrInterrupted")]

\* case <-ctx.Done(): mv.Cleanup(false); return "", mv.ErrInterrupted
CtxDoneBranch == [arg |-> FALSE, ret |-> MaybeString("", "ErrInterrupted")]

\* case r := <-res: mv.Cleanup(r.Error == nil); return r.Result, r.Error
ResBranch(r) == [arg |-> r.Error = "nil", ret |-> r]

\* ctx is cancelled (user interrupt, deadline)
Cancel ==
    /\ mpc = "select"
    /\ ~cancelled
    /\ cancelled' = TRUE
    /\ cancelAt' = pc
    /\ UNCHANGED <<stackVars, apiVars, concVars, waitVars, infoVars, fmtVars, runVars, kind, conf, res, mainVars, bodyVars,
                   registered, latePush, apiLog, cloud>>

SelectCtxDone ==
    /\ mpc = "select"
    /\ cancelled
    /\ mpc' = "cleanup"
    /\ cleanupArg' = CtxDoneBranch.arg
    /\ ret' = CtxDoneBranch.ret
    /\ cleanups' = cleanups + 1
    /\ branch' = "ctx"
    /\ UNCHANGED <<stackVars, apiVars, concVars, waitVars, infoVars, fmtVars, runVars, kind, conf, ctxVars, res, bodyVars,
                   registered, latePush, apiLog, cloud>>

SelectRes ==
    /\ mpc = "select"
    /\ res # <<>>
    /\ res' = Tail(res)
    /\ mpc' = "cleanup"
    /\ cleanupArg' = ResBranch(Head(res)).arg
    /\ ret' = ResBranch(Head(res)).ret
    /\ cleanups' = cleanups + 1
    /\ branch' = "res"
    /\ UNCHANGED <<stackVars, apiVars, concVars, waitVars, infoVars, fmtVars, runVars, kind, conf, ctxVars, bodyVars,
                   registered, latePush, apiLog, cloud>>

\* What the cleanup function id does to the account when it is called; each
\* logs the error of its call and returns.
CleanupEffects(c, id) ==
    CASE id = "delMV" -> {c, DeleteVol(c, "vol-mv")}
      [] id = "delOrig" -> {c, DeleteVol(c, rootVolID)}
      [] id = "termInst" -> {c, [c EXCEPT !.live = @ \ {"tmpinst"}]}
      [] id = "delSnap" ->
            {c, [c EXCEPT !.live = @ \ {IF conf.targetIsInstance THEN "snap" ELSE "given"}]}
      [] id = "rmKey" -> {c, [c EXCEPT !.live = @ \ {"key"}]}
      [] id = "rmFile" -> {c, [c EXCEPT !.live = @ \ {"keyfile"}]}

CleanupReturnEarly ==
    /\ mpc = "cleanup"
    /\ mpc' = "returned"
    /\ UNCHANGED <<stackVars, apiVars, concVars, waitVars, infoVars, fmtVars, runVars, kind, conf, ctxVars, res, cleanupArg,
                   ret, cleanups, branch, bodyVars, registered, latePush, apiLog, cloud>>

\* Cleanup finds stackedCleanups nil or Len() == 0 and returns; the
\* top-level call returns.
CleanupReturn ==
    /\ mpc = "cleanup"
    /\ IF stackedCleanups = nil THEN TRUE ELSE StackLen(heap[stackedCleanups]) = 0
    /\ mpc' = "returned"
    /\ UNCHANGED <<stackVars, apiVars, concVars, waitVars, infoVars, fmtVars, runVars, kind, conf, ctxVars, res, cleanupArg,
                   ret, cleanups, branch, bodyVars, registered, latePush, apiLog, cloud>>

\* one turn of Cleanup's loop: Pop, and call the function if it applies
CleanupIter ==
    /\ mpc = "cleanup"
    /\ stackedCleanups # nil
    /\ StackLen(heap[stackedCleanups]) # 0
    /\ LET p == Pop(heap[stackedCleanups]) IN
        /\ heap' = [heap EXCEPT ![stackedCleanups] = p.s]
        /\ IF ~p.err /\ ShouldRun(cleanupArg, p.f)
           THEN /\ ran' = Append(ran, p.f.f.id)
                /\ cloud' \in CleanupEffects(cloud, p.f.f.id)
           ELSE UNCHANGED <<ran, cloud>>
    /\ UNCHANGED <<stackedCleanups, apiVars, concVars, waitVars, infoVars, fmtVars, runVars, kind, conf, ctxVars, res,
                   mainVars, bodyVars, registered, latePush, apiLog>>

\* the instance reaches the state it was asked to reach
CloudSettle ==
    /\ cloud.inst \in {"stopping", "pending"}
    /\ cloud' = [cloud EXCEPT !.inst = IF @ = "stopping" THEN "stopped" ELSE "running"]
    /\ UNCHANGED <<stackVars, apiVars, concVars, waitVars, infoVars, fmtVars, runVars, kind, conf, ctxVars, res, mainVars,
                   bodyVars, registered, latePush, apiLog>>

\* ---- the body goroutine
unchangedByBody == <<ran, apiVars, concVars, waitVars, infoVars, fmtVars, runVars, kind, conf, ctxVars, mainVars>>

\* the body returns (result, err) and the goroutine sends it on res
Return(result, err) ==
    /\ Len(res) < 1
    /\ res' = Append(res, MaybeString(result, err))
    /\ pc' = "done"
    /\ failedAt' = IF err = "nil" THEN failedAt ELSE pc

Goto(next) ==
    /\ pc' = next
    /\ UNCHANGED <<res, failedAt>>

\* mv.QueueCleanup(f, onlyOnFail) called by the body
Register(id, onlyOnFail) ==
    /\ QueueCleanup(CleanupFunc(id, FALSE, onlyOnFail))
    /\ registered' = Append(registered, CleanupFunc(id, FALSE, onlyOnFail))
    /\ latePush' = (latePush \/ mpc # "select")

NoRegister == UNCHANGED <<heap, stackedCleanups, registered, latePush>>

Call(name, arg, err) == apiLog' = Append(apiLog, <<name, arg, err>>)

\* the goroutine sends the error of aws.New and goes on instead of returning
NewServiceNoReturn ==
    /\ pc = "new"
    /\ \E ok \in BOOLEAN :
         /\ pc' = IF kind = "image" THEN "iVerify" ELSE "wVerify"
         /\ IF ok THEN UNCHANGED <<res, failedAt>>
            ELSE /\ Len(res) < 1
                 /\ res' = Append(res, MaybeString("", "err"))
                 /\ failedAt' = pc
    /\ NoRegister
    /\ UNCHANGED <<rootVolID, apiLog, cloud>>
    /\ UNCHANGED unchangedByBody

\* wrap.Instance / wrap.Image goroutine: aws.FindInstanceRegion, aws.New
NewService ==
    /\ pc = "new"
    /\ \E ok \in BOOLEAN :
         IF ok THEN Goto(IF kind = "image" THEN "iVerify" ELSE "wVerify")
         ELSE Return("", "err")
    /\ NoRegister
    /\ UNCHANGED <<rootVolID, apiLog, cloud>>
    /\ UNCHANGED unchangedByBody

\* awsWrapInstance: IsInstanceID, awsVerifyConfig
WrapVerifyConfig ==
    /\ pc = "wVerify"
    /\ IF kind = "instance" /\ ~conf.idOK THEN Return("", "ErrInvalidID")
       ELSE IF ~conf.amiOK THEN Return("", "ErrInvalidAMI")
       ELSE IF ~TokenAccepted(conf.Token) THEN Return("", "ErrInvalidLaunchToken")
       ELSE Goto("wGetInstance")
    /\ NoRegister
    /\ UNCHANGED <<rootVolID, apiLog, cloud>>
    /\ UNCHANGED unchangedByBody

\* awsVerifyInstance on the fetched instance
VerifyInstance ==
    IF ~conf.hasRoot THEN "ErrNoRootDevice"
    ELSE IF ~conf.typeOK THEN "ErrInvalidType"
    ELSE IF ~conf.sdfFree THEN "ErrDeviceOccupied"
    ELSE "nil"

\* awsWrapInstance: GetInstance, awsVerifyInstance
WrapGetInstance ==
    /\ pc = "wGetInstance"
    /\ \E o \in Outcomes(cancelled) :
         /\ Call("GetInstance", "inst", o.err)
         /\ IF o.err # "nil" THEN Return("", o.err) /\ UNCHANGED rootVolID
            ELSE IF VerifyInstance # "nil" THEN Return("", VerifyInstance) /\ UNCHANGED rootVolID
            ELSE Goto("wSnapshot") /\ rootVolID' = cloud.devRoot
    /\ NoRegister
    /\ UNCHANGED cloud
    /\ UNCHANGED unchangedByBody

\* awsWrapInstance: getMetavisorAMI, awsMetavisorSnapshot
WrapSnapshot ==
    /\ pc = "wSnapshot"
    /\ \E o \in Outcomes(cancelled) :
         /\ Call("GetSnapshot", "mv", o.err)
         /\ IF o.err # "nil" THEN Return("", o.err) ELSE Goto("wStop")
    /\ NoRegister
    /\ UNCHANGED <<rootVolID, cloud>>
    /\ UNCHANGED unchangedByBody

\* awsWrapInstance: StopInstance
WrapStop ==
    /\ pc = "wStop"
    /\ \E o \in Outcomes(cancelled) :
         /\ Call("StopInstance", "inst", o.err)
         /\ cloud' = IF o.eff /\ cloud.inst \in {"running", "pending"}
                     THEN [cloud EXCEPT !.inst = "stopping"] ELSE cloud
         /\ IF o.err # "nil" THEN Return("", o.err) ELSE Goto("wUserdata")
    /\ NoRegister
    /\ UNCHANGED rootVolID
    /\ UNCHANGED unchangedByBody

\* awsSetInstanceUserdata: any error but ErrNotAllowed becomes ErrBadUserdata
WrapUserdata ==
    /\ pc = "wUserdata"
    /\ \E o \in Outcomes(cancelled) :
         /\ Call("ModifyInstanceAttribute", "userData", o.err)
         /\ IF o.err = "nil" THEN Goto("wCreateVolume")
            ELSE IF o.err = "ErrNotAllowed" THEN Return("", "ErrNotAllowed")
            ELSE Return("", "ErrBadUserdata")
    /\ NoRegister
    /\ UNCHANGED <<rootVolID, cloud>>
    /\ UNCHANGED unchangedByBody

\* awsWrapInstance: CreateVolume from the Metavisor snapshot
WrapCreateVolume ==
    /\ pc = "wCreateVolume"
    /\ \E o \in Outcomes(cancelled) :
         /\ Call("CreateVolume", "vol-mv", o.err)
         /\ cloud' = IF o.eff THEN [cloud EXCEPT !.vols = @ \cup {"vol-mv"}] ELSE cloud
         /\ IF o.err # "nil" THEN Return("", o.err) ELSE Goto("wQueueMV")
    /\ NoRegister
    /\ UNCHANGED rootVolID
    /\ UNCHANGED unchangedByBody

\* awsWrapInstance: QueueCleanup(delete the Metavisor volume, true)
WrapQueueMV ==
    /\ pc = "wQueueMV"
    /\ Register("delMV", TRUE)
    /\ Goto("wQueueOrig")
    /\ UNCHANGED <<rootVolID, apiLog, cloud>>
    /\ UNCHANGED unchangedByBody

WrapQueueOrigSkip ==
    /\ pc = "wQueueOrig"
    /\ IF rootVolID = "none"
       THEN Return("", "ErrNoRootDevice")
       ELSE Goto("wDetach")
    /\ NoRegister
    /\ UNCHANGED <<rootVolID, apiLog, cloud>>
    /\ UNCHANGED unchangedByBody

\* awsShuffleInstanceVolumes: QueueCleanup(delete the instance volume, true)
WrapQueueOrig ==
    /\ pc = "wQueueOrig"
    /\ IF rootVolID = "none"
       THEN Return("", "ErrNoRootDevice") /\ NoRegister
       ELSE Goto("wDetach") /\ Register("delOrig", TRUE)
    /\ UNCHANGED <<rootVolID, apiLog, cloud>>
    /\ UNCHANGED unchangedByBody

\* awsShuffleInstanceVolumes: DetachVolume of the root volume
WrapDetach ==
    /\ pc = "wDetach"
    /\ \E o \in Outcomes(cancelled) :
         /\ Call("DetachVolume", rootVolID, o.err)
         /\ cloud' = IF o.eff THEN DetachRoot(cloud, rootVolID) ELSE cloud
         /\ IF o.err # "nil" THEN Return("", o.err) ELSE Goto("wAttachGuest")
    /\ NoRegister
    /\ UNCHANGED rootVolID
    /\ UNCHANGED unchangedByBody

\* AttachVolume of the root volume at /dev/sdf whose error is not looked at
WrapAttachGuestIgnoreErr ==
    /\ pc = "wAttachGuest"
    /\ \E o \in Outcomes(cancelled) :
         /\ Call("AttachVolume", rootVolID, o.err)
         /\ cloud' = IF o.eff THEN AttachAt(cloud, rootVolID, "devSdf") ELSE cloud
         /\ Goto("wAttachMV")
    /\ NoRegister
    /\ UNCHANGED rootVolID
    /\ UNCHANGED unchangedByBody

\* awsShuffleInstanceVolumes: AttachVolume of the root volume at /dev/sdf
WrapAttachGuest ==
    /\ pc = "wAttachGuest"
    /\ \E o \in Outcomes(cancelled) :
         /\ Call("AttachVolume", rootVolID, o.err)
         /\ cloud' = IF o.eff THEN AttachAt(cloud, rootVolID, "devSdf") ELSE cloud
         /\ IF o.err # "nil" THEN Return("", o.err) ELSE Goto("wAttachMV")
    /\ NoRegister
    /\ UNCHANGED rootVolID
    /\ UNCHANGED unchangedByBody

\* awsShuffleInstanceVolumes: AttachVolume of the Metavisor volume at the root
WrapAttachMV ==
    /\ pc = "wAttachMV"
    /\ \E o \in Outcomes(cancelled) :
         /\ Call("AttachVolume", "vol-mv", o.err)
         /\ cloud' = IF o.eff THEN AttachAt(cloud, "vol-mv", "devRoot") ELSE cloud
         /\ IF o.err # "nil" THEN Return("", o.err) ELSE Goto("wAwait")
    /\ NoRegister
    /\ UNCHANGED rootVolID
    /\ UNCHANGED unchangedByBody

\* the test of awaitInstanceDevices on one fetched instance
DevicesAttachedEither(obs, mvVolID, guestVolID) ==
    \/ obs.devSdf # "none" /\ guestVolID = obs.devSdf
    \/ obs.devRoot # "none" /\ mvVolID = obs.devRoot

DevicesAttached(obs, mvVolID, guestVolID) ==
    /\ obs.devSdf # "none"
    /\ obs.devRoot # "none"
    /\ guestVolID = obs.devSdf
    /\ mvVolID = obs.devRoot

AwaitDevicesTurnLate(t, o, obs, mvVolID, guestVolID) ==
    IF o.err = "ErrNotAllowed" THEN "ErrNotAllowed"
    ELSE IF o.err # "nil" THEN (IF t + 1 <= maxTries THEN "next" ELSE "ErrTimedOut")
    ELSE IF t > 1 /\ DevicesAttached(obs, mvVolID, guestVolID) THEN "nil"
    ELSE IF t = maxTries THEN "ErrTimedOut"
    ELSE "next"

\* awaitInstanceDevices: turn t of the loop, given what GetInstance returned.
\* "next" is another turn; a failed GetInstance (other than ErrNotAllowed)
\* continues without the test and without the sleep.
AwaitDevicesTurn(t, o, obs, mvVolID, guestVolID) ==
    IF o.err = "ErrNotAllowed" THEN "ErrNotAllowed"
    ELSE IF o.err # "nil" THEN (IF t + 1 <= maxTries THEN "next" ELSE "ErrTimedOut")
    ELSE IF DevicesAttached(obs, mvVolID, guestVolID) THEN "nil"
    ELSE IF t = maxTries THEN "ErrTimedOut"
    ELSE "next"

\* awaitInstanceDevices from turn t on: the errors it can return ("nil": the
\* devices were seen attached)
RECURSIVE AwaitDevicesFrom(_, _, _, _, _)
AwaitDevicesFrom(t, c, ctxDone, mvVolID, guestVolID) ==
    LET rs == {AwaitDevicesTurn(t, o, obs, mvVolID, guestVolID) :
                  o \in Outcomes(ctxDone), obs \in Observations(c)}
    IN (rs \ {"next"}) \cup
       (IF "next" \in rs THEN AwaitDevicesFrom(t + 1, c, ctxDone, mvVolID, guestVolID)
        ELSE {})

\* awsShuffleInstanceVolumes: awaitInstanceDevices, a wait that reads only
WrapAwaitDevices ==
    /\ pc = "wAwait"
    /\ \E err \in AwaitDevicesFrom(1, cloud, cancelled, "vol-mv", rootVolID) :
         /\ Call("awaitInstanceDevices", "inst", err)
         /\ IF err # "nil" THEN Return("", err) ELSE Goto("wSriov")
    /\ NoRegister
    /\ UNCHANGED <<rootVolID, cloud>>
    /\ UNCHANGED unchangedByBody

\* awsEnableSriovNetSupport: a failure is logged only
WrapSriov ==
    /\ pc = "wSriov"
    /\ \E needed \in BOOLEAN :
         IF needed
         THEN \E o \in Outcomes(cancelled) :
                 Call("ModifyInstanceAttribute", "sriovNetSupport", o.err)
         ELSE UNCHANGED apiLog
    /\ Goto("wENA")
    /\ NoRegister
    /\ UNCHANGED <<rootVolID, cloud>>
    /\ UNCHANGED unchangedByBody

\* awsEnableENASupport: a failure is returned
WrapENA ==
    /\ pc = "wENA"
    /\ \E needed \in BOOLEAN :
         IF needed
         THEN /\ \E o \in Outcomes(cancelled) :
                   /\ Call("ModifyInstanceAttribute", "enaSupport", o.err)
                   /\ IF o.err # "nil" THEN Return("", o.err) ELSE Goto("wStart")
         ELSE UNCHANGED apiLog /\ Goto("wStart")
    /\ NoRegister
    /\ UNCHANGED <<rootVolID, cloud>>
    /\ UNCHANGED unchangedByBody

\* what awsWrapInstance's caller does with (inst.ID(), err): wrap.Instance
\* sends it, awsWrapImage goes on when err is nil and returns "", err if not
WrapReturn(err) ==
    IF kind = "image"
    THEN IF err = "nil" THEN Goto("iAwaitOK") ELSE Return("", err)
    ELSE Return("inst", err)

\* awsFinalizeInstance: StartInstance
WrapStart ==
    /\ pc = "wStart"
    /\ \E o \in Outcomes(cancelled) :
         /\ Call("StartInstance", "inst", o.err)
         /\ cloud' = IF o.eff /\ cloud.inst \in {"stopped", "stopping"}
                     THEN [cloud EXCEPT !.inst = "pending"] ELSE cloud
         /\ IF o.err # "nil" THEN WrapReturn(o.err) ELSE Goto("wDelOnTerm")
    /\ NoRegister
    /\ UNCHANGED rootVolID
    /\ UNCHANGED unchangedByBody

WrapDelOnTermStrict ==
    /\ pc = "wDelOnTerm"
    /\ \E o \in Outcomes(cancelled) :
         /\ Call("DeleteInstanceDevicesOnTermination", "inst", o.err)
         /\ WrapReturn(o.err)
    /\ NoRegister
    /\ UNCHANGED <<rootVolID, cloud>>
    /\ UNCHANGED unchangedByBody

\* awsFinalizeInstance: DeleteInstanceDevicesOnTermination; ErrNotAllowed is
\* a warning
WrapDelOnTerm ==
    /\ pc = "wDelOnTerm"
    /\ \E o \in Outcomes(cancelled) :
         /\ Call("DeleteInstanceDevicesOnTermination", "inst", o.err)
         /\ IF o.err \in {"nil", "ErrNotAllowed"} THEN WrapReturn("nil") ELSE WrapReturn(o.err)
    /\ NoRegister
    /\ UNCHANGED <<rootVolID, cloud>>
    /\ UNCHANGED unchangedByBody

WrapInstanceStep ==
    \/ WrapVerifyConfig
    \/ WrapGetInstance
    \/ WrapSnapshot
    \/ WrapStop
    \/ WrapUserdata
    \/ WrapCreateVolume
    \/ WrapQueueMV
    \/ WrapQueueOrig
    \/ WrapDetach
    \/ WrapAttachGuest
    \/ WrapAttachMV
    \/ WrapAwaitDevices
    \/ WrapSriov
    \/ WrapENA
    \/ WrapStart
    \/ WrapDelOnTerm

\* ---- awsWrapImage
\* IsAMIID(id) and the token check (conf.SubnetID is taken to be well formed)
ImageVerify ==
    /\ pc = "iVerify"
    /\ IF ~conf.idOK THEN Return("", "ErrInvalidAMIID")
       ELSE IF ~TokenAccepted(conf.Token) THEN Return("", "ErrInvalidLaunchToken")
       ELSE Goto("iLaunch")
    /\ NoRegister
    /\ UNCHANGED <<rootVolID, apiLog, cloud>>
    /\ UNCHANGED unchangedByBody

\* LaunchInstance of the temporary wrapper instance
ImageLaunch ==
    /\ pc = "iLaunch"
    /\ \E o \in Outcomes(cancelled) :
         /\ Call("LaunchInstance", "tmpinst", o.err)
         /\ cloud' = IF o.eff THEN [cloud EXCEPT !.live = @ \cup {"tmpinst"}] ELSE cloud
         /\ IF o.err # "nil" THEN Return("", o.err) ELSE Goto("iQueueTerm")
    /\ NoRegister
    /\ UNCHANGED rootVolID
    /\ UNCHANGED unchangedByBody

\* QueueCleanup(terminate the temporary instance, false)
ImageQueueTerm ==
    /\ pc = "iQueueTerm"
    /\ Register("termInst", FALSE)
    /\ Goto("iAwaitRunning")
    /\ UNCHANGED <<rootVolID, apiLog, cloud>>
    /\ UNCHANGED unchangedByBody

\* AwaitInstanceRunning, then awsWrapInstance on the temporary instance
ImageAwaitRunning ==
    /\ pc = "iAwaitRunning"
    /\ \E o \in Outcomes(cancelled) :
         /\ Call("AwaitInstanceRunning", "tmpinst", o.err)
         /\ IF o.err # "nil" THEN Return("", o.err) ELSE Goto("wVerify")
    /\ NoRegister
    /\ UNCHANGED <<rootVolID, cloud>>
    /\ UNCHANGED unchangedByBody

\* AwaitInstanceOK on the wrapped instance
ImageAwaitOK ==
    /\ pc = "iAwaitOK"
    /\ \E o \in Outcomes(cancelled) :
         /\ Call("AwaitInstanceOK", "tmpinst", o.err)
         /\ IF o.err # "nil" THEN Return("", o.err) ELSE Goto("iGetImage")
    /\ NoRegister
    /\ UNCHANGED <<rootVolID, cloud>>
    /\ UNCHANGED unchangedByBody

\* GetImage of the source image: ErrNotAllowed falls back to default names
ImageGetImage ==
    /\ pc = "iGetImage"
    /\ \E o \in Outcomes(cancelled) :
         /\ Call("GetImage", "source", o.err)
         /\ IF o.err \in {"nil", "ErrNotAllowed"} THEN Goto("iCreateImage")
            ELSE Return("", o.err)
    /\ NoRegister
    /\ UNCHANGED <<rootVolID, cloud>>
    /\ UNCHANGED unchangedByBody

\* CreateImage from the wrapped instance
ImageCreateImage ==
    /\ pc = "iCreateImage"
    /\ \E o \in Outcomes(cancelled) :
         /\ Call("CreateImage", "image", o.err)
         /\ cloud' = IF o.eff THEN [cloud EXCEPT !.live = @ \cup {"image"}] ELSE cloud
         /\ IF o.err # "nil" THEN Return("", o.err) ELSE Goto("iAwaitAvailable")
    /\ NoRegister
    /\ UNCHANGED rootVolID
    /\ UNCHANGED unchangedByBody

\* AwaitImageAvailable, return ami, nil
ImageAwaitAvailable ==
    /\ pc = "iAwaitAvailable"
    /\ \E o \in Outcomes(cancelled) :
         /\ Call("AwaitImageAvailable", "image", o.err)
         /\ IF o.err # "nil" THEN Return("", o.err) ELSE Return("image", "nil")
    /\ NoRegister
    /\ UNCHANGED <<rootVolID, cloud>>
    /\ UNCHANGED unchangedByBody

WrapImageStep ==
    \/ ImageVerify
    \/ ImageLaunch
    \/ ImageQueueTerm
    \/ ImageAwaitRunning
    \/ ImageAwaitOK
    \/ ImageGetImage
    \/ ImageCreateImage
    \/ ImageAwaitAvailable

\* ---- awsShareLogs
publicIPTries == 10
downloadTries == 60

\* the id and output path checks, aws.New
LogsVerify ==
    /\ pc = "lVerify"
    /\ IF ~conf.idOK THEN Return("", "ErrInvalidID")
       ELSE \E ok \in BOOLEAN : IF ok THEN Goto("lKeyExist") ELSE Return("", "err")
    /\ NoRegister
    /\ UNCHANGED <<rootVolID, apiLog, cloud>>
    /\ UNCHANGED unchangedByBody

LogsKeyExistCreate ==
    /\ pc = "lKeyExist"
    /\ \E fileOK \in BOOLEAN :
         IF conf.keyGiven
         THEN \E o \in Outcomes(cancelled), exists \in BOOLEAN :
                 /\ Call("KeyPairExist", "given", o.err)
                 /\ IF o.err \notin {"nil", "ErrNotAllowed"} THEN Return("", o.err)
                    ELSE IF o.err = "nil" /\ ~exists THEN Return("", "ErrNoAWSKey")
                    ELSE IF ~fileOK THEN Return("", "ErrNoPrivateKey")
                    ELSE Goto("lCreateKey")
         ELSE /\ UNCHANGED apiLog
              /\ IF ~fileOK THEN Return("", "ErrNoPrivateKey") ELSE Goto("lCreateKey")
    /\ NoRegister
    /\ UNCHANGED <<rootVolID, cloud>>
    /\ UNCHANGED unchangedByBody

\* KeyPairExist when a key name is given (ErrNotAllowed: assume it exists),
\* the check that a given private key file exists, and the test of keyExist
\* that guards the creation of a temporary key
LogsKeyExist ==
    /\ pc = "lKeyExist"
    /\ \E fileOK \in BOOLEAN :
         IF conf.keyGiven
         THEN \E o \in Outcomes(cancelled), exists \in BOOLEAN :
                 /\ Call("KeyPairExist", "given", o.err)
                 /\ IF o.err \notin {"nil", "ErrNotAllowed"} THEN Return("", o.err)
                    ELSE IF o.err = "nil" /\ ~exists THEN Return("", "ErrNoAWSKey")
                    ELSE IF ~fileOK THEN Return("", "ErrNoPrivateKey")
                    ELSE Goto("lSnap")
         ELSE /\ UNCHANGED apiLog
              /\ IF ~fileOK THEN Return("", "ErrNoPrivateKey") ELSE Goto("lCreateKey")
    /\ NoRegister
    /\ UNCHANGED <<rootVolID, cloud>>
    /\ UNCHANGED unchangedByBody

\* CreateKeyPair of a temporary key
LogsCreateKey ==
    /\ pc = "lCreateKey"
    /\ \E o \in Outcomes(cancelled) :
         /\ Call("CreateKeyPair", "key", o.err)
         /\ cloud' = IF o.eff THEN [cloud EXCEPT !.live = @ \cup {"key"}] ELSE cloud
         /\ IF o.err # "nil" THEN Return("", o.err) ELSE Goto("lQueueKey")
    /\ NoRegister
    /\ UNCHANGED rootVolID
    /\ UNCHANGED unchangedByBody

\* QueueCleanup(RemoveKeyPair, false)
LogsQueueKey ==
    /\ pc = "lQueueKey"
    /\ Register("rmKey", FALSE)
    /\ Goto("lQueueFile")
    /\ UNCHANGED <<rootVolID, apiLog, cloud>>
    /\ UNCHANGED unchangedByBody

\* writeToTempFile (its error is dropped), QueueCleanup(os.Remove, false)
LogsQueueFile ==
    /\ pc = "lQueueFile"
    /\ \E written \in BOOLEAN :
         cloud' = IF written THEN [cloud EXCEPT !.live = @ \cup {"keyfile"}] ELSE cloud
    /\ Register("rmFile", FALSE)
    /\ Goto("lSnap")
    /\ UNCHANGED <<rootVolID, apiLog>>
    /\ UNCHANGED unchangedByBody

LogsSnapQueueAlways ==
    /\ pc = "lSnap"
    /\ IF conf.targetIsInstance
       THEN \E o \in Outcomes(cancelled), ok \in BOOLEAN :
               /\ Call("GetInstance", "inst", o.err)
               /\ IF o.err # "nil" THEN Return("", o.err)
                  ELSE IF ~ok THEN Return("", "ErrNoRootVolume")
                  ELSE Goto("lCreateSnap")
       ELSE \E o \in Outcomes(cancelled) :
               /\ Call("GetSnapshot", "given", o.err)
               /\ IF o.err # "nil" THEN Return("", o.err) ELSE Goto("lQueueSnap")
    /\ NoRegister
    /\ UNCHANGED <<rootVolID, cloud>>
    /\ UNCHANGED unchangedByBody

\* awsSnapFromID on an instance id: awsInstanceToSnap's GetInstance and its
\* look-up of the root volume; on a snapshot id: GetSnapshot
LogsSnap ==
    /\ pc = "lSnap"
    /\ IF conf.targetIsInstance
       THEN \E o \in Outcomes(cancelled), ok \in BOOLEAN :
               /\ Call("GetInstance", "inst", o.err)
               /\ IF o.err # "nil" THEN Return("", o.err)
                  ELSE IF ~ok THEN Return("", "ErrNoRootVolume")
                  ELSE Goto("lCreateSnap")
       ELSE \E o \in Outcomes(cancelled) :
               /\ Call("GetSnapshot", "given", o.err)
               /\ IF o.err # "nil" THEN Return("", o.err) ELSE Goto("lLaunch")
    /\ NoRegister
    /\ UNCHANGED <<rootVolID, cloud>>
    /\ UNCHANGED unchangedByBody

\* awsInstanceToSnap: CreateSnapshot of the instance's root volume
LogsCreateSnap ==
    /\ pc = "lCreateSnap"
    /\ \E o \in Outcomes(cancelled) :
         /\ Call("CreateSnapshot", "snap", o.err)
         /\ cloud' = IF o.eff THEN [cloud EXCEPT !.live = @ \cup {"snap"}] ELSE cloud
         /\ IF o.err # "nil" THEN Return("", o.err) ELSE Goto("lQueueSnap")
    /\ NoRegister
    /\ UNCHANGED rootVolID
    /\ UNCHANGED unchangedByBody

\* awsSnapFromID: QueueCleanup(DeleteSnapshot, false)
LogsQueueSnap ==
    /\ pc = "lQueueSnap"
    /\ Register("delSnap", FALSE)
    /\ Goto("lLaunch")
    /\ UNCHANGED <<rootVolID, apiLog, cloud>>
    /\ UNCHANGED unchangedByBody

\* LaunchInstance of the temporary instance
LogsLaunch ==
    /\ pc = "lLaunch"
    /\ \E o \in Outcomes(cancelled) :
         /\ Call("LaunchInstance", "tmpinst", o.err)
         /\ cloud' = IF o.eff THEN [cloud EXCEPT !.live = @ \cup {"tmpinst"}] ELSE cloud
         /\ IF o.err # "nil" THEN Return("", o.err) ELSE Goto("lQueueTerm")
    /\ NoRegister
    /\ UNCHANGED rootVolID
    /\ UNCHANGED unchangedByBody

\* QueueCleanup(TerminateInstance, false)
LogsQueueTerm ==
    /\ pc = "lQueueTerm"
    /\ Register("termInst", FALSE)
    /\ Goto("lAwaitRunning")
    /\ UNCHANGED <<rootVolID, apiLog, cloud>>
    /\ UNCHANGED unchangedByBody

AwaitPublicIPTurnShort(t, o, hasIP) ==
    IF o.err = "nil" /\ hasIP THEN "nil"
    ELSE IF t >= publicIPTries - 1 THEN "ErrNoPublicIP"
    ELSE "next"

\* awsAwaitPublicIP: turn t of the loop
AwaitPublicIPTurn(t, o, hasIP) ==
    IF o.err = "nil" /\ hasIP THEN "nil"
    ELSE IF t = publicIPTries THEN "ErrNoPublicIP"
    ELSE "next"

\* awsAwaitPublicIP from turn t on: the errors it can return
RECURSIVE AwaitPublicIPFrom(_, _)
AwaitPublicIPFrom(t, ctxDone) ==
    LET rs == {AwaitPublicIPTurn(t, o, hasIP) : o \in Outcomes(ctxDone), hasIP \in BOOLEAN}
    IN (rs \ {"next"}) \cup
       (IF "next" \in rs THEN AwaitPublicIPFrom(t + 1, ctxDone) ELSE {})

\* AwaitInstanceRunning, and awsAwaitPublicIP when the launched instance has
\* no public IP yet
LogsAwaitRunning ==
    /\ pc = "lAwaitRunning"
    /\ \E o \in Outcomes(cancelled) :
         /\ Call("AwaitInstanceRunning", "tmpinst", o.err)
         /\ IF o.err # "nil" THEN Return("", o.err) ELSE Goto("lAwaitIP")
    /\ NoRegister
    /\ UNCHANGED <<rootVolID, cloud>>
    /\ UNCHANGED unchangedByBody

LogsAwaitIP ==
    /\ pc = "lAwaitIP"
    /\ \E hasIP \in BOOLEAN :
         IF hasIP THEN UNCHANGED apiLog /\ Goto("lScp")
         ELSE /\ \E err \in AwaitPublicIPFrom(1, cancelled) :
                   /\ Call("awsAwaitPublicIP", "tmpinst", err)
                   /\ IF err # "nil" THEN Return("", err) ELSE Goto("lScp")
    /\ NoRegister
    /\ UNCHANGED <<rootVolID, cloud>>
    /\ UNCHANGED unchangedByBody

DownloadTurnLong(t, ok) ==
    IF ok THEN "nil" ELSE IF t = downloadTries + 1 THEN "err" ELSE "next"

\* the download loop: turn t, DownloadFile succeeded or not ("err": the
\* timed-out error after the loop)
DownloadTurn(t, ok) ==
    IF ok THEN "nil" ELSE IF t = downloadTries THEN "err" ELSE "next"

RECURSIVE DownloadFrom(_)
DownloadFrom(t) ==
    LET rs == {DownloadTurn(t, ok) : ok \in BOOLEAN}
    IN (rs \ {"next"}) \cup (IF "next" \in rs THEN DownloadFrom(t + 1) ELSE {})

\* scp.New and the download loop (DownloadFile takes no context)
LogsDownload ==
    /\ pc = "lScp"
    /\ \E scpOK \in BOOLEAN :
         IF scpOK
         THEN \E err \in DownloadFrom(1) :
                 /\ Call("DownloadFile", "logs", err)
                 /\ IF err # "nil" THEN Return("", err) ELSE Return("path", "nil")
         ELSE UNCHANGED apiLog /\ Return("", "err")
    /\ NoRegister
    /\ UNCHANGED <<rootVolID, cloud>>
    /\ UNCHANGED unchangedByBody

ShareLogsStep ==
    \/ LogsVerify
    \/ LogsKeyExist
    \/ LogsCreateKey
    \/ LogsQueueKey
    \/ LogsQueueFile
    \/ LogsSnap
    \/ LogsCreateSnap
    \/ LogsQueueSnap
    \/ LogsLaunch
    \/ LogsQueueTerm
    \/ LogsAwaitRunning
    \/ LogsAwaitIP
    \/ LogsDownload

Next ==
    \/ Cancel
    \/ SelectCtxDone
    \/ SelectRes
    \/ CleanupIter
    \/ CleanupReturn
    \/ CloudSettle
    \/ NewService
    \/ WrapInstanceStep
    \/ WrapImageStep
    \/ ShareLogsStep

Init == InitSaga

Spec == Init /\ [][Next]_vars

\* the steps of the goroutine started by the top-level call
GoroutineStep ==
    \/ NewService
    \/ WrapInstanceStep
    \/ WrapImageStep
    \/ ShareLogsStep

\* the goroutine keeps running as long as it has a step to take, also when
\* the top-level call has returned
SpecFair == Init /\ [][Next]_vars /\ WF_vars(GoroutineStep)

\* ----------------------------------------------------------------- helpers
\* ------------------------------------ the convergence waits, turn by turn
\* awaitInstanceDevices (after the volumes were asked to attach),
\* awsAwaitPublicIP and AwaitInstanceOK, each called once with a context that
\* may be cancelled while it runs.
WaitFns == {"awaitInstanceDevices", "awsAwaitPublicIP", "AwaitInstanceOK"}

\* the loops that poll: the waits, and the download loop of awsShareLogs
LoopFns == WaitFns \cup {"DownloadFile"}

InitWait ==
    /\ StackInit
    /\ ApiInit
    /\ ConcIdle
    /\ kind = "none"
    /\ conf = <<>>
    /\ cancelled = FALSE
    /\ cancelAt = "none"
    /\ res = <<>>
    /\ mpc = "returned"
    /\ cleanupArg = FALSE
    /\ ret = <<>>
    /\ cleanups = 0
    /\ branch = "none"
    /\ pc = "done"
    /\ rootVolID = "vol-orig"
    /\ failedAt = "none"
    /\ registered = <<>>
    /\ latePush = FALSE
    /\ apiLog = <<>>
    /\ InfoIdle
    /\ FormatIdle
    /\ RunIdle
    /\ fn \in LoopFns
    /\ cloud \in [inst : {"stopped"},
                  devRoot : IF fn = "awaitInstanceDevices" THEN {"none"} ELSE {"vol-mv"},
                  devSdf : IF fn = "awaitInstanceDevices" THEN {"none"} ELSE {"vol-orig"},
                  vols : {{"vol-orig", "vol-mv"}}, live : {{}}]
    /\ wpc = "loop"
    /\ try = 1
    /\ werr = "nil"
    /\ lastObs = <<>>
    /\ seen = {}
    /\ obsErrs = {}
    /\ slept = FALSE
    /\ obsAfterCancel = 0
    /\ sleptAfterCancel = FALSE

unchangedByWait ==
    <<stackVars, apiVars, concVars, infoVars, fmtVars, runVars, kind, conf, res, mainVars, bodyVars, registered,
      latePush, apiLog>>

\* ctx is cancelled while the wait runs
WaitCancel ==
    /\ wpc \in {"loop", "sleep"}
    /\ ~cancelled
    /\ cancelled' = TRUE
    /\ UNCHANGED <<cancelAt, cloud, waitVars>>
    /\ UNCHANGED unchangedByWait

\* a volume that was asked to attach becomes attached
DevicesSettle ==
    /\ fn = "awaitInstanceDevices"
    /\ wpc \in {"loop", "sleep"}
    /\ \/ cloud.devRoot = "none" /\ cloud' = [cloud EXCEPT !.devRoot = "vol-mv"]
       \/ cloud.devSdf = "none" /\ cloud' = [cloud EXCEPT !.devSdf = rootVolID]
    /\ UNCHANGED <<ctxVars, waitVars>>
    /\ UNCHANGED unchangedByWait

CountUp(n) == IF n < MaxCounted THEN n + 1 ELSE n

\* what one turn of a wait leaves behind: r is the turn's result ("next":
\* another turn), err the error of its observation, observed what the
\* observation showed, sleeps whether the turn called time.Sleep, counts
\* whether the loop has a counter
WaitTurn(r, err, observed, sleeps, counts) ==
    /\ lastObs' = IF err = "nil" THEN <<observed>> ELSE lastObs
    /\ seen' = IF err = "nil" THEN seen \cup {observed} ELSE seen
    /\ obsErrs' = IF err = "nil" THEN obsErrs ELSE obsErrs \cup {err}
    /\ slept' = (slept \/ sleeps)
    /\ obsAfterCancel' = IF cancelled THEN CountUp(obsAfterCancel) ELSE obsAfterCancel
    /\ sleptAfterCancel' = (sleptAfterCancel \/ (cancelled /\ sleeps))
    /\ IF r = "next"
       THEN /\ try' = IF counts THEN try + 1 ELSE try
            /\ wpc' = IF sleeps THEN "sleep" ELSE "loop"
            /\ UNCHANGED werr
       ELSE /\ wpc' = "returned"
            /\ werr' = r
            /\ UNCHANGED try
    /\ UNCHANGED <<fn, ctxVars, cloud>>
    /\ UNCHANGED unchangedByWait

\* one turn of awaitInstanceDevices: it sleeps when the observation
\* succeeded, the devices are not attached and tries are left
AwaitDevicesStep ==
    /\ fn = "awaitInstanceDevices"
    /\ wpc = "loop"
    /\ \E o \in Outcomes(cancelled), obs \in Observations(cloud) :
         LET r == AwaitDevicesTurn(try, o, obs, "vol-mv", rootVolID)
         IN WaitTurn(r, o.err, obs, r = "next" /\ o.err = "nil", TRUE)

\* one turn of awsAwaitPublicIP: it sleeps whenever it does not return the
\* instance, after the last try too
AwaitPublicIPStep ==
    /\ fn = "awsAwaitPublicIP"
    /\ wpc = "loop"
    /\ \E o \in Outcomes(cancelled), hasIP \in BOOLEAN :
         LET r == AwaitPublicIPTurn(try, o, hasIP)
         IN WaitTurn(r, o.err, hasIP, r # "nil", TRUE)

\* what DescribeInstanceStatus can answer for the one instance id: without
\* IncludeAllInstances it lists an instance only while it is running
InstanceStatuses ==
    UNION {[1..n -> {"ok", "initializing", "impaired"}] : n \in 0..MaxStatuses}

\* AwaitInstanceOK: one turn of its for loop, given what
\* DescribeInstanceStatus returned. allOK starts true and the inner loop
\* runs over out.InstanceStatuses.
AwaitInstanceOKTurn(o, statuses) ==
    IF o.err = "ErrNotAllowed" THEN "ErrNotAllowed"
    ELSE IF o.err # "nil" THEN "next"
    ELSE IF \E i \in DOMAIN statuses : statuses[i] = "impaired" THEN "ErrInstanceImpaired"
    ELSE IF \A i \in DOMAIN statuses : statuses[i] = "ok" THEN "nil"
    ELSE "next"

\* one turn of AwaitInstanceOK: the loop has no counter
AwaitInstanceOKStep ==
    /\ fn = "AwaitInstanceOK"
    /\ wpc = "loop"
    /\ \E o \in Outcomes(cancelled), statuses \in InstanceStatuses :
         LET r == AwaitInstanceOKTurn(o, statuses)
         IN WaitTurn(r, o.err, statuses, r = "next", FALSE)

\* one turn of the download loop of awsShareLogs: DownloadFile takes no
\* context; a failed attempt sleeps
DownloadStep ==
    /\ fn = "DownloadFile"
    /\ wpc = "loop"
    /\ \E ok \in BOOLEAN :
         LET r == DownloadTurn(try, ok)
         IN WaitTurn(r, IF ok THEN "nil" ELSE "err", ok, ~ok, TRUE)

\* time.Sleep returns and the loop goes on
WaitWake ==
    /\ wpc = "sleep"
    /\ wpc' = "loop"
    /\ UNCHANGED <<fn, try, werr, lastObs, seen, obsErrs, slept, obsAfterCancel,
                   sleptAfterCancel, ctxVars, cloud>>
    /\ UNCHANGED unchangedByWait

WaitStep ==
    AwaitDevicesStep \/ AwaitPublicIPStep \/ AwaitInstanceOKStep \/ DownloadStep \/ WaitWake

NextWait ==
    \/ WaitCancel
    \/ DevicesSettle
    \/ AwaitDevicesStep
    \/ AwaitPublicIPStep
    \/ AwaitInstanceOKStep
    \/ DownloadStep
    \/ WaitWake

SpecWait == InitWait /\ [][NextWait]_vars

\* the goroutine that runs the wait keeps running
SpecWaitFair == InitWait /\ [][NextWait]_vars /\ WF_vars(WaitStep)

\* ------------------------------------------------------------ mv.GetInfo
\* One call of GetInfo(ctx): the caller's ctx may be cancelled before or
\* during the call, the timeout of context.WithTimeout may expire, and
\* getLatestMVVersion runs in its own goroutine.
CLIVersion == "1.0.3pre1"

\* what the bucket can list, newest first
VersionLists == {<<>>, <<"mv-2">>, <<"mv-2", "mv-1">>}

Info(cli, mv, success) == [CLIVersion |-> cli, MVVersion |-> mv, Success |-> success]

InitInfo ==
    /\ StackInit
    /\ ApiInit
    /\ ConcIdle
    /\ SagaIdle
    /\ WaitIdle
    /\ FormatIdle
    /\ RunIdle
    /\ infoPc = "start"
    /\ fetchPc = "none"
    /\ infoCtx \in {"nil", "Canceled"}
    /\ mvs = <<>>
    /\ fetched = <<>>
    /\ infoRes = <<>>
    /\ out = <<>>
    /\ infoErr = "nil"
    /\ infoCase = "none"
    /\ doneBeforeArrival = FALSE

unchangedByInfo == <<stackVars, apiVars, concVars, sagaVars, waitVars, fmtVars, runVars>>

\* a goroutine parked in the select is woken for the case that became ready
Woken(case) == IF infoPc = "parked" THEN case ELSE infoPc

\* ctx becomes done with error e: the caller cancels, or the timer of
\* WithTimeout fires
CtxDone(e) ==
    /\ infoCtx = "nil"
    /\ infoPc # "returned"
    /\ infoCtx' = e
    /\ infoPc' = Woken("caseCtx")
    /\ doneBeforeArrival' = (doneBeforeArrival \/ infoRes = <<>>)
    /\ UNCHANGED <<fetchPc, mvs, fetched, infoRes, out, infoErr, infoCase>>
    /\ UNCHANGED unchangedByInfo

\* the caller cancels its ctx
InfoCancel == infoPc \in {"start", "select", "parked", "caseCtx", "caseRes"} /\ CtxDone("Canceled")

\* fetchTimeout has passed since WithTimeout
InfoTimeout == infoPc # "start" /\ CtxDone("DeadlineExceeded")

\* context.WithTimeout, out := &Info{CLIVersion: CLIVersion}, make(chan), go
InfoStart ==
    /\ infoPc = "start"
    /\ infoPc' = "select"
    /\ out' = Info(CLIVersion, "", FALSE)
    /\ fetchPc' = "session"
    /\ doneBeforeArrival' = (infoCtx # "nil")
    /\ UNCHANGED <<infoCtx, mvs, fetched, infoRes, infoErr, infoCase>>
    /\ UNCHANGED unchangedByInfo

\* the select finds no case ready and blocks
InfoPark ==
    /\ infoPc = "select"
    /\ infoCtx = "nil"
    /\ infoRes = <<>>
    /\ infoPc' = "parked"
    /\ UNCHANGED <<fetchPc, infoCtx, mvs, fetched, infoRes, out, infoErr, infoCase,
                   doneBeforeArrival>>
    /\ UNCHANGED unchangedByInfo

CaseCtxDoneKeep == [out |-> out, err |-> "nil"]

\* case <-ctx.Done(): out.Success = false; err = ctx.Err()
CaseCtxDone == [out |-> [out EXCEPT !.Success = FALSE], err |-> infoCtx]

\* case r := <-res: out.MVVersion = r.Result; out.Success = r.Error == nil;
\* err = r.Error
CaseRes(r) ==
    [out |-> [out EXCEPT !.MVVersion = r.Result, !.Success = (r.Error = "nil")],
     err |-> r.Error]

\* the select takes ctx.Done() (ready when the select is reached, or the
\* case it was woken for); return out, err
InfoSelectCtxDone ==
    /\ \/ infoPc = "select" /\ infoCtx # "nil"
       \/ infoPc = "caseCtx"
    /\ out' = CaseCtxDone.out
    /\ infoErr' = CaseCtxDone.err
    /\ infoCase' = "ctx"
    /\ infoPc' = "returned"
    /\ UNCHANGED <<fetchPc, infoCtx, mvs, fetched, infoRes, doneBeforeArrival>>
    /\ UNCHANGED unchangedByInfo

\* the select takes res; return out, err; the deferred cancel() runs
InfoSelectRes ==
    /\ \/ infoPc = "select" /\ infoRes # <<>>
       \/ infoPc = "caseRes"
    /\ out' = CaseRes(Head(infoRes)).out
    /\ infoErr' = CaseRes(Head(infoRes)).err
    /\ infoRes' = Tail(infoRes)
    /\ infoCase' = "res"
    /\ infoPc' = "returned"
    /\ infoCtx' = IF infoCtx = "nil" THEN "Canceled" ELSE infoCtx
    /\ UNCHANGED <<fetchPc, mvs, fetched, doneBeforeArrival>>
    /\ UNCHANGED unchangedByInfo

\* a step of getLatestMVVersion that does not send
FetchGoto(next, versions, result) ==
    /\ fetchPc' = next
    /\ mvs' = versions
    /\ fetched' = result
    /\ UNCHANGED <<infoPc, infoCtx, infoRes, out, infoErr, infoCase, doneBeforeArrival>>
    /\ UNCHANGED unchangedByInfo

\* awsGetMVVersions: session.NewSession
FetchSession ==
    /\ fetchPc = "session"
    /\ \E ok \in BOOLEAN :
         IF ok THEN FetchGoto("list", mvs, fetched)
         ELSE FetchGoto("send", mvs, <<MaybeString("", "err")>>)

\* awsGetMVVersions: listAllMetavisors; a request with a done ctx fails
FetchList ==
    /\ fetchPc = "list"
    /\ IF infoCtx # "nil"
       THEN FetchGoto("send", mvs, <<MaybeString("", "RequestCanceled")>>)
       ELSE \E ok \in BOOLEAN, vs \in VersionLists :
               IF ok THEN FetchGoto("latest", vs, fetched)
               ELSE FetchGoto("send", mvs, <<MaybeString("", "err")>>)

\* determineLatest: getObjectBody of the latest key; its error makes latest
\* "" and awsGetMVVersions returns no error; so does an empty list
FetchLatest ==
    /\ fetchPc = "latest"
    /\ IF infoCtx # "nil"
       THEN FetchGoto("send", mvs, <<MaybeString("", "nil")>>)
       ELSE \E ok \in BOOLEAN :
               IF ok /\ mvs # <<>> THEN FetchGoto("compare", mvs, fetched)
               ELSE FetchGoto("send", mvs, <<MaybeString("", "nil")>>)

\* determineLatest: getObjectBody for allVersions[0], which reads the latest
\* key again (its key parameter is not used), so the first version compares
\* equal
FetchCompare ==
    /\ fetchPc = "compare"
    /\ IF infoCtx # "nil"
       THEN FetchGoto("send", mvs, <<MaybeString("", "nil")>>)
       ELSE \E ok \in BOOLEAN :
               IF ok THEN FetchGoto("send", mvs, <<MaybeString(mvs[1], "nil")>>)
               ELSE FetchGoto("send", mvs, <<MaybeString("", "nil")>>)

\* c <- MaybeString{versions.Latest, err}: the channel has room for it
FetchSend ==
    /\ fetchPc = "send"
    /\ infoRes' = Append(infoRes, fetched[1])
    /\ fetchPc' = "done"
    /\ infoPc' = Woken("caseRes")
    /\ UNCHANGED <<infoCtx, mvs, fetched, out, infoErr, infoCase, doneBeforeArrival>>
    /\ UNCHANGED unchangedByInfo

NextInfo ==
    \/ InfoCancel
    \/ InfoTimeout
    \/ InfoStart
    \/ InfoPark
    \/ InfoSelectCtxDone
    \/ InfoSelectRes
    \/ FetchSession
    \/ FetchList
    \/ FetchLatest
    \/ FetchCompare
    \/ FetchSend

SpecInfo == InitInfo /\ [][NextInfo]_vars

Reverse(s) == [i \in 1..Len(s) |-> s[Len(s) + 1 - i]]
Ids(fs) == [i \in 1..Len(fs) |-> fs[i].f.id]
NoDup(s) == \A i, j \in 1..Len(s) : i # j => s[i] # s[j]
Applicable(fs, success) == SelectSeq(fs, LAMBDA f : ShouldRun(success, f))
\* the calls of the log that change something in the account
Mutating ==
    {"StopInstance", "ModifyInstanceAttribute", "CreateVolume", "DetachVolume",
     "AttachVolume", "StartInstance", "DeleteInstanceDevicesOnTermination",
     "LaunchInstance", "CreateImage", "CreateKeyPair", "CreateSnapshot"}
MutatingCalls(log) == SelectSeq(log, LAMBDA c : c[1] \in Mutating)
\* what the body sent on res, once it is done
BodyResult == IF res # <<>> THEN Head(res) ELSE ret
StackEmpty ==
    IF stackedCleanups = nil THEN TRUE
    ELSE /\ heap[stackedCleanups].size = 0
         /\ heap[stackedCleanups].funcs = <<>>

\* ------------------------------------------------------------------ claims

\* C3: every cleanup function registered since the last Cleanup is run by
\* Cleanup(false), each once, in the reverse of the registration order,
\* whatever its onlyOnFail flag.
C3_CleanupFalseRunsAllReversed ==
    (lastOp = "cleanup" /\ ~lastSuccess) => lastRan = Reverse(Ids(lastReg))

C3_Witness ==
    /\ lastOp = "cleanup"
    /\ ~lastSuccess
    /\ Len(lastReg) >= 2
    /\ \E i, j \in 1..Len(lastReg) : lastReg[i].onlyOnFail /\ ~lastReg[j].onlyOnFail
    /\ Len(lastRan) = Len(lastReg)

\* C4: Cleanup(true) runs the functions registered with onlyOnFail = false,
\* in the reverse of the registration order, and none registered with
\* onlyOnFail = true.
C4_CleanupTrueSkipsOnlyOnFail ==
    (lastOp = "cleanup" /\ lastSuccess) =>
        /\ lastRan = Reverse(Ids(SelectSeq(lastReg, LAMBDA f : ~f.onlyOnFail)))
        /\ \A i \in 1..Len(lastReg) :
              lastReg[i].onlyOnFail => \A k \in 1..Len(lastRan) : lastRan[k] # lastReg[i].f.id

C4_Witness ==
    /\ lastOp = "cleanup"
    /\ lastSuccess
    /\ Len(lastRan) >= 2
    /\ \E i \in 1..Len(lastReg) : lastReg[i].onlyOnFail

\* C7: a cleanup function that panics does not stop Cleanup: the functions
\* registered before it still run in the same call, and Cleanup returns.
C7_PanicDoesNotStopCleanup ==
    lastOp = "cleanup" =>
        /\ ~crashed
        /\ lastRan = Reverse(Ids(Applicable(lastReg, lastSuccess)))
        /\ StackEmpty

\* C8: after all the concurrent QueueCleanup calls have returned, the stack
\* holds exactly the functions they registered.
C8_ConcurrentQueueKeepsAll ==
    (\A g \in 1..NumRoutines : gpc[g] = "done") =>
        /\ stackedCleanups # nil
        /\ heap[stackedCleanups].size = NumRoutines
        /\ {heap[stackedCleanups].funcs[i].f.id : i \in 1..Len(heap[stackedCleanups].funcs)}
              = 1..NumRoutines

\* C9: when Cleanup has returned the stack is empty, whatever the success
\* flag, and no registered function has been run more than once.
C9_EmptyAfterCleanupAtMostOnce ==
    /\ lastOp = "cleanup" => StackEmpty
    /\ NoDup(ran)

C9_Witness ==
    /\ lastOp = "cleanup"
    /\ lastSuccess
    /\ calls >= 2
    /\ Len(ran) >= 1
    /\ \E i \in 1..Len(lastReg) : lastReg[i].onlyOnFail
    /\ StackEmpty

\* C1: wrap.Instance on an instance whose root device holds the original
\* volume and whose /dev/sdf is free: when attaching the Metavisor volume at
\* the root device fails, then after Cleanup the original volume is at the
\* root device again and /dev/sdf is free.
C1_RootRestoredAfterFailedAttach ==
    (kind = "instance" /\ conf.hasRoot /\ conf.sdfFree /\ failedAt = "wAttachMV"
       /\ branch = "res" /\ mpc = "returned") =>
        /\ cloud.devRoot = "vol-orig"
        /\ cloud.devSdf = "none"

\* C2: Cleanup gets success = true exactly when the body returned no error
\* and the select took the result; then the functions registered with
\* onlyOnFail = false run, no other, and the stack ends empty; in every other
\* run every registered function is run.
C2_UnwindFollowsOutcome ==
    (mpc = "returned" /\ pc = "done") =>
        /\ cleanupArg = (branch = "res" /\ ret.Error = "nil")
        /\ cleanupArg =>
              /\ ran = Reverse(Ids(SelectSeq(registered, LAMBDA f : ~f.onlyOnFail)))
              /\ StackEmpty
        /\ ~cleanupArg => ran = Reverse(Ids(registered))

C6_NoPushAfterUnwindStarted ==
    /\ ~latePush
    /\ (mpc = "returned" /\ ~cleanupArg) => StackEmpty

\* C10: the top-level call returns only from a Cleanup call that has run to
\* its end (it found the stack empty), and that call is the only Cleanup
\* call it made, whatever the outcome.
C10_ReturnsAfterTheOneCleanup ==
    [][(mpc # "returned" /\ mpc' = "returned") =>
          /\ mpc = "cleanup"
          /\ cleanups = 1
          /\ cleanups' = 1
          /\ StackEmpty]_vars

C10_Witness ==
    /\ mpc = "returned"
    /\ cleanups = 1
    /\ branch = "res"
    /\ ret.Error # "nil"
    /\ Len(ran) >= 2
    /\ StackEmpty

\* C11: wrap.Instance given a non-empty token that is not a launch token
\* (three parts, a decodable JSON payload, token type "launch") makes no
\* mutating call and registers no cleanup function, and the body gets no
\* further than the configuration check, which returns ErrInvalidLaunchToken.
C11_BadTokenFailsFast ==
    LET tok == conf.Token
        launch == /\ tok.parts = 3
                  /\ tok.enc \in {"raw", "std"}
                  /\ tok.json
                  /\ tok.type \in {"launch", "Launch"}
    IN (kind = "instance" /\ tok # EmptyToken /\ ~launch) =>
          /\ MutatingCalls(apiLog) = <<>>
          /\ registered = <<>>
          /\ cloud.inst = "running" /\ cloud.vols = {cloud.devRoot, cloud.devSdf} \ {"none"}
          /\ pc \in {"new", "wVerify", "done"}
          /\ (pc = "done" /\ failedAt = "wVerify" /\ conf.idOK /\ conf.amiOK) =>
                BodyResult = MaybeString("", "ErrInvalidLaunchToken")

C11_Witness ==
    /\ kind = "instance"
    /\ conf.Token = Token(3, "raw", TRUE, "other")
    /\ conf.idOK /\ conf.amiOK
    /\ mpc = "returned"
    /\ ret = MaybeString("", "ErrInvalidLaunchToken")
    /\ apiLog = <<>>

\* C12: when the body of wrap.Instance or wrap.Image returns a precondition
\* error (invalid Metavisor AMI id, instance type not allowed, /dev/sdf
\* occupied, no root device, invalid launch token), it has made no mutating
\* call and registered no cleanup function.
C12_PreconditionErrorsBeforeMutation ==
    (kind \in {"instance", "image"} /\ pc = "done" /\
     BodyResult.Error \in {"ErrInvalidAMI", "ErrInvalidType", "ErrDeviceOccupied",
                           "ErrNoRootDevice", "ErrInvalidLaunchToken"}) =>
        /\ MutatingCalls(apiLog) = <<>>
        /\ registered = <<>>

\* C13: in wrap.Instance and wrap.Image only the last call the body has made
\* can have returned an error; when it has, the body is done and has returned
\* an error (that one, or the one the step puts in its place), and a Cleanup
\* that follows the result gets success = false.
C13_FirstErrorStopsTheBody ==
    kind \in {"instance", "image"} =>
        /\ \A i \in 1..(Len(apiLog) - 1) : apiLog[i][3] = "nil"
        /\ (apiLog # <<>> /\ apiLog[Len(apiLog)][3] # "nil") =>
              /\ pc = "done"
              /\ BodyResult.Error # "nil"
              /\ branch = "res" => ~cleanupArg

\* C14: when ctx is cancelled while awaitInstanceDevices or awsAwaitPublicIP
\* runs, the wait makes at most the one observation that meets the
\* cancellation, does not sleep again, and returns the error of the
\* cancelled call.
C14_CancelledWaitReturnsPromptly ==
    (fn \in {"awaitInstanceDevices", "awsAwaitPublicIP"} /\ cancelled) =>
        /\ obsAfterCancel <= 1
        /\ ~sleptAfterCancel
        /\ obsAfterCancel = 1 => (wpc = "returned" /\ werr = "err")

\* C15: once an observation of a wait has returned ErrNotAllowed, the wait
\* has returned ErrNotAllowed: no later observation, no sleep.
C15_DeniedObservationAborts ==
    (fn \in WaitFns /\ "ErrNotAllowed" \in obsErrs) =>
        /\ wpc = "returned"
        /\ werr = "ErrNotAllowed"

\* C16: a wait that returns its timed-out error (ErrTimedOut of
\* awaitInstanceDevices, ErrNoPublicIP of awsAwaitPublicIP) has made exactly
\* maxTries observations, the failed ones included.
C16_TimeoutAfterExactlyMaxTries ==
    /\ (fn = "awaitInstanceDevices" /\ wpc = "returned" /\ werr = "ErrTimedOut") =>
          try = maxTries
    /\ (fn = "awsAwaitPublicIP" /\ wpc = "returned" /\ werr = "ErrNoPublicIP") =>
          try = publicIPTries
    /\ (fn \in {"awaitInstanceDevices", "awsAwaitPublicIP"} /\ wpc # "returned") =>
          try <= IF fn = "awaitInstanceDevices" THEN maxTries ELSE publicIPTries

C16_Witness ==
    /\ fn = "awaitInstanceDevices"
    /\ wpc = "returned"
    /\ werr = "ErrTimedOut"
    /\ try = maxTries
    /\ "err" \in obsErrs
    /\ seen # {}
    /\ ~cancelled

\* C17: every wait returns.
C17_EveryWaitReturns == <>(wpc = "returned")

\* C18: a wait whose first observation succeeds and shows what it waits for
\* returns in that turn, without an error, without having slept and without
\* another observation.
C18_FirstObservationReturns ==
    [][(/\ fn \in WaitFns /\ wpc = "loop"
        /\ seen = {} /\ obsErrs = {} /\ ~slept
        /\ seen' # {}
        /\ CASE fn = "awaitInstanceDevices" -> DevicesAttached(lastObs'[1], "vol-mv", rootVolID)
             [] fn = "awsAwaitPublicIP" -> lastObs' = <<TRUE>>
             [] fn = "AwaitInstanceOK" -> lastObs' = <<<<"ok">>>>) =>
           /\ wpc' = "returned"
           /\ werr' = "nil"
           /\ ~slept'
           /\ try' = try]_vars

C18_Witness ==
    /\ fn = "awsAwaitPublicIP"
    /\ wpc = "returned"
    /\ werr = "nil"
    /\ try = 1
    /\ ~slept
    /\ seen = {TRUE}

\* C19: awaitInstanceDevices returns nil only when its last observation
\* showed the Metavisor volume at the root device and the original root
\* volume at /dev/sdf, both in that one observation.
C19_BothDevicesInOneObservation ==
    (fn = "awaitInstanceDevices" /\ wpc = "returned" /\ werr = "nil") =>
        /\ lastObs # <<>>
        /\ lastObs[1].devRoot = "vol-mv"
        /\ lastObs[1].devSdf = rootVolID

C19_Witness ==
    /\ fn = "awaitInstanceDevices"
    /\ wpc = "returned"
    /\ werr = "nil"
    /\ [devRoot |-> "vol-mv", devSdf |-> "none"] \in seen
    /\ [devRoot |-> "none", devSdf |-> "vol-orig"] \in seen
    /\ lastObs = <<[devRoot |-> "vol-mv", devSdf |-> "vol-orig"]>>

\* C20: in wrap.Instance and wrap.Image the userdata change, the creation of
\* the Metavisor volume and the detach of the root volume are issued only
\* when the instance has reached the stopped state.
C20_StoppedBeforeDeviceChanges ==
    [][(/\ kind \in {"instance", "image"}
        /\ Len(apiLog') = Len(apiLog) + 1
        /\ \/ apiLog'[Len(apiLog')][1] \in {"CreateVolume", "DetachVolume"}
           \/ /\ apiLog'[Len(apiLog')][1] = "ModifyInstanceAttribute"
              /\ apiLog'[Len(apiLog')][2] = "userData") =>
           cloud.inst = "stopped"]_vars

\* a call of the log that returns only when it has seen volume v available:
\* AwaitVolumeAvailable itself, and DetachVolume, which ends in it
ObservesAvailable(c, v) ==
    /\ c[1] \in {"AwaitVolumeAvailable", "DetachVolume"}
    /\ c[2] = v
    /\ c[3] = "nil"

\* C21: every AttachVolume of the Metavisor volume is issued after a call
\* that observed that volume in the available state.
C21_AvailableBeforeAttach ==
    \A i \in DOMAIN apiLog :
        (apiLog[i][1] = "AttachVolume" /\ apiLog[i][2] = "vol-mv") =>
            \E j \in 1..(i - 1) : ObservesAvailable(apiLog[j], "vol-mv")

\* C22: when the body of wrap.Instance returns without an error, a call that
\* returns only when it has seen the instance running (AwaitInstanceRunning)
\* has returned nil after StartInstance.
C22_SuccessAfterRunningObserved ==
    (kind = "instance" /\ pc = "done" /\ BodyResult.Error = "nil") =>
        \E i \in DOMAIN apiLog :
            /\ apiLog[i][1] = "StartInstance"
            /\ \E j \in (i + 1)..Len(apiLog) :
                  apiLog[j] = <<"AwaitInstanceRunning", "inst", "nil">>

\* the function f is on the stack of the package
Stacked(f) ==
    /\ stackedCleanups # nil
    /\ \E i \in 1..StackLen(heap[stackedCleanups]) : heap[stackedCleanups].funcs[i] = f

IssuedDetach == \E i \in DOMAIN apiLog : apiLog[i][1] = "DetachVolume"

C24_NetworkingFailureIsAWarning ==
    \A i \in DOMAIN apiLog :
        (/\ apiLog[i][1] = "ModifyInstanceAttribute"
         /\ apiLog[i][2] \in {"sriovNetSupport", "enaSupport"}
         /\ apiLog[i][3] # "nil") =>
            /\ failedAt \notin {"wSriov", "wENA"}
            /\ pc = "done" => \E j \in (i + 1)..Len(apiLog) : apiLog[j][1] = "StartInstance"

\* C25: when DeleteInstanceDevicesOnTermination returns ErrNotAllowed the
\* wrap ends as it does when the call returns nil (wrap.Instance's body
\* returns the instance id and no error, awsWrapImage goes on), and the
\* top-level call of wrap.Instance that takes that result returns it and
\* runs Cleanup(true); when the call returns another error the body returns
\* that error.
C25_DelOnTermDeniedIsAWarning ==
    [][/\ (pc = "wDelOnTerm" /\ pc' # "wDelOnTerm") =>
             LET e == apiLog'[Len(apiLog')][3] IN
             IF e \in {"nil", "ErrNotAllowed"}
             THEN IF kind = "instance"
                  THEN pc' = "done" /\ Head(res') = MaybeString("inst", "nil")
                  ELSE pc' = "iAwaitOK" /\ res' = <<>>
             ELSE pc' = "done" /\ Head(res').Error = e
       /\ (kind = "instance" /\ failedAt = "none" /\ pc = "done"
             /\ mpc = "select" /\ branch' = "res") =>
             /\ ret' = MaybeString("inst", "nil")
             /\ cleanupArg']_vars

C25_Witness ==
    /\ kind = "instance"
    /\ apiLog # <<>>
    /\ apiLog[Len(apiLog)] = <<"DeleteInstanceDevicesOnTermination", "inst", "ErrNotAllowed">>
    /\ branch = "res"
    /\ mpc = "returned"
    /\ ret = MaybeString("inst", "nil")
    /\ cleanupArg

\* C26: in share-logs with a key name given, once KeyPairExist has shown the
\* key (or was denied, which the code takes for shown), the body makes no
\* CreateKeyPair call and registers neither the removal of a key pair nor the
\* removal of a key file, up to its end and through the unwind.
C26_GivenKeyIsNotReplaced ==
    (kind = "logs" /\ conf.keyGiven) =>
        /\ \A i \in DOMAIN apiLog : apiLog[i][1] # "CreateKeyPair"
        /\ \A i \in DOMAIN registered : registered[i].f.id \notin {"rmKey", "rmFile"}
        /\ "key" \notin cloud.live
        /\ \A i \in DOMAIN ran : ran[i] \notin {"rmKey", "rmFile"}

C26_Witness ==
    /\ kind = "logs"
    /\ conf.keyGiven
    /\ apiLog # <<>>
    /\ apiLog[1] = <<"KeyPairExist", "given", "nil">>
    /\ mpc = "returned"
    /\ ret = MaybeString("path", "nil")
    /\ Len(ran) >= 1

\* C27: in share-logs the removal of the snapshot is registered exactly when
\* CreateSnapshot has returned a snapshot, which happens only when the target
\* is an instance; when the target is a snapshot there is no CreateSnapshot
\* call, no removal is registered or run, and the given snapshot stays.
C27_TemporarySnapshotOnlyForInstance ==
    kind = "logs" =>
        LET created == \E i \in DOMAIN apiLog : apiLog[i] = <<"CreateSnapshot", "snap", "nil">>
            queued == \E i \in DOMAIN registered : registered[i].f.id = "delSnap"
        IN /\ queued => (created /\ conf.targetIsInstance)
           /\ (created /\ pc # "lQueueSnap") => queued
           /\ ~conf.targetIsInstance =>
                 /\ \A i \in DOMAIN apiLog : apiLog[i][1] # "CreateSnapshot"
                 /\ \A i \in DOMAIN ran : ran[i] # "delSnap"
                 /\ "given" \in cloud.live
                 /\ "snap" \notin cloud.live

C27_Witness ==
    /\ kind = "logs"
    /\ ~conf.targetIsInstance
    /\ \E i \in DOMAIN apiLog : apiLog[i] = <<"GetSnapshot", "given", "nil">>
    /\ mpc = "returned"
    /\ ret = MaybeString("path", "nil")
    /\ "termInst" \in {ran[i] : i \in DOMAIN ran}
    /\ "given" \in cloud.live

\* C28: the download loop of awsShareLogs makes at most downloadTries
\* attempts; a successful attempt ends it at once with the path (nil), so
\* nothing is attempted after a success; it returns the timed-out error
\* only when downloadTries attempts have failed.
C28_DownloadAtMostSixtyAttempts ==
    fn = "DownloadFile" =>
        /\ try <= downloadTries
        /\ seen \subseteq {TRUE}
        /\ seen # {} => (wpc = "returned" /\ werr = "nil")
        /\ (wpc = "returned" /\ werr = "nil") => lastObs = <<TRUE>>
        /\ (wpc = "returned" /\ werr # "nil") =>
              (werr = "err" /\ try = downloadTries /\ seen = {})

C28_Witness ==
    /\ fn = "DownloadFile"
    /\ wpc = "returned"
    /\ werr = "err"
    /\ try = downloadTries
    /\ slept

\* C29: AwaitInstanceOK returns nil only on an observation that reports the
\* status ok for the instance.
C29_OKOnlyAfterOKObserved ==
    (fn = "AwaitInstanceOK" /\ wpc = "returned" /\ werr = "nil") =>
        /\ lastObs # <<>>
        /\ \E i \in DOMAIN lastObs[1] : lastObs[1][i] = "ok"

MaxVersions == 3

VersionNames == {"mv-1", "mv-2", "mv-3"}

\* MetavisorVersions values: Latest may be empty, Versions is any list.
MetavisorVersionsValues ==
    [Latest : VersionNames \cup {""},
     Versions : UNION {[1..n -> VersionNames] : n \in 0..MaxVersions}]

\* What one turn of the loop writes to the buffer, as a sequence of pieces:
\* "%s (latest)\n" for the latest entry, the bare version for a last entry
\* that is not the latest, "%s\n" otherwise.
WriteEntry(m, i) ==
    IF m.Versions[i] = m.Latest
    THEN <<m.Versions[i], " (latest)", "\n">>
    ELSE IF i = Len(m.Versions)
         THEN <<m.Versions[i]>>
         ELSE <<m.Versions[i], "\n">>

\* The buffer after the loop has run from entry i to the end.
RECURSIVE FormatFrom(_, _)
FormatFrom(m, i) ==
    IF i > Len(m.Versions) THEN <<>>
    ELSE WriteEntry(m, i) \o FormatFrom(m, i + 1)

\* json.MarshalIndent of the struct: an object with the two tagged fields.
MarshalIndent(m) ==
    <<"{", "latest_mv_version", m.Latest, "mv_versions", m.Versions, "}">>

FormatMetavisors(m, withJSON) ==
    IF withJSON THEN MarshalIndent(m) ELSE FormatFrom(m, 1)

InitFormat ==
    /\ StackInit
    /\ ApiInit
    /\ ConcIdle
    /\ SagaIdle
    /\ WaitIdle
    /\ InfoIdle
    /\ RunIdle
    /\ fmtPc = "call"
    /\ fmtIn \in [mvs : MetavisorVersionsValues, withJSON : BOOLEAN]
    /\ fmtOut = <<>>

unchangedByFormat == <<stackVars, apiVars, concVars, sagaVars, waitVars, infoVars, runVars>>

\* listMetavisors calls FormatMetavisors once with the list it fetched.
FormatCall ==
    /\ fmtPc = "call"
    /\ fmtOut' = FormatMetavisors(fmtIn.mvs, fmtIn.withJSON)
    /\ fmtPc' = "returned"
    /\ UNCHANGED <<fmtIn, unchangedByFormat>>

NextFormat == FormatCall

SpecFormat == InitFormat /\ [][NextFormat]_vars

\* The simple output the documentation describes: the versions in input
\* order, " (latest)" after each entry equal to Latest, and a newline
\* between entries only.
RECURSIVE SimpleLinesFrom(_, _)
SimpleLinesFrom(m, i) ==
    IF i > Len(m.Versions) THEN <<>>
    ELSE <<m.Versions[i]>>
         \o (IF m.Versions[i] = m.Latest THEN <<" (latest)">> ELSE <<>>)
         \o (IF i < Len(m.Versions) THEN <<"\n">> ELSE <<>>)
         \o SimpleLinesFrom(m, i + 1)

\* C31: for any version list the simple output of FormatMetavisors is the
\* versions in input order, one per line, the entry equal to Latest followed
\* by " (latest)", and no newline after the last entry.
C31_SimpleOutputIsJoinedLines ==
    (fmtPc = "returned" /\ ~fmtIn.withJSON)
        => fmtOut = SimpleLinesFrom(fmtIn.mvs, 1)

\* A DeleteVolume call for the instance's original root volume was made: the
\* only one in the wrap saga is the function queued by
\* awsShuffleInstanceVolumes.
DeleteIssuedForOriginal == \E i \in 1..Len(ran) : ran[i] = "delOrig"

\* C32: in no execution of the wrap saga (success, failure at any step,
\* interruption) is a delete issued for the instance's original root volume.
C32_NoDeleteOfOriginalRootVolume ==
    kind \in {"instance", "image"} => ~DeleteIssuedForOriginal

\* The body goroutine has sent a result with a nil error.
BodySucceeded == pc = "done" /\ failedAt = "none"

\* Cleanup calls one of the two functions queued with onlyOnFail = true.
RunsFailureOnly ==
    /\ Len(ran') = Len(ran) + 1
    /\ ran'[Len(ran')] \in {"delMV", "delOrig"}

\* C33: once the body has completed successfully no failure-only function
\* (deletion of the Metavisor volume, deletion of the swapped original
\* volume) is called, also when ctx.Done() is ready together with the result.
C33_NoFailureOnlyAfterSuccess ==
    [][(kind \in {"instance", "image"} /\ BodySucceeded) => ~RunsFailureOnly]_vars

\* the body issues AttachVolume of the Metavisor volume in this step
IssuesAttachMV ==
    /\ Len(apiLog') = Len(apiLog) + 1
    /\ apiLog'[Len(apiLog')][1] = "AttachVolume"
    /\ apiLog'[Len(apiLog')][2] = "vol-mv"

\* DetachVolume of the root volume, then AttachVolume of it, have both
\* returned nil: the first ends in AwaitVolumeAvailable, the second in
\* AwaitVolumeInUse.
GuestVolumeMoved ==
    \E j \in DOMAIN apiLog :
        /\ apiLog[j] = <<"DetachVolume", rootVolID, "nil">>
        /\ \E k \in (j + 1)..Len(apiLog) :
              apiLog[k] = <<"AttachVolume", rootVolID, "nil">>

\* C34: AttachVolume of the Metavisor volume at the root device is issued
\* only after DetachVolume of the original root volume and AttachVolume of it
\* at /dev/sdf have both returned nil, that is after the volume was seen
\* available and then in use; the root device is then free and the original
\* volume is at /dev/sdf.
C34_AttachMVAfterGuestVolumeMoved ==
    [][IssuesAttachMV =>
          /\ GuestVolumeMoved
          /\ cloud.devRoot = "none"
          /\ cloud.devSdf = rootVolID]_vars

C34_Witness ==
    /\ GuestVolumeMoved
    /\ \E i \in DOMAIN apiLog : apiLog[i] = <<"AttachVolume", "vol-mv", "nil">>
    /\ cloud.devRoot = "vol-mv"

\* Positions of the body before mv.QueueCleanup of the Metavisor volume's
\* function has returned.
BeforeQueueMV ==
    {"new", "wVerify", "wGetInstance", "wSnapshot", "wStop", "wUserdata",
     "wCreateVolume", "wQueueMV"}

\* The top-level call has returned from a run whose body failed, or that was
\* interrupted, when the Metavisor volume's function had been registered.
EndedAfterQueueMV ==
    /\ kind \in {"instance", "image"}
    /\ mpc = "returned"
    /\ ~cleanupArg
    /\ "delMV" \in {registered[i].f.id : i \in DOMAIN registered}
    /\ branch = "ctx" => cancelAt \notin BeforeQueueMV

\* id was called by Cleanup, and before the Metavisor volume's function.
RanBeforeMV(id) ==
    \E i \in DOMAIN ran :
        /\ ran[i] = id
        /\ \E j \in (i + 1)..Len(ran) : ran[j] = "delMV"

\* C35: when wrap.Instance or wrap.Image fails or is interrupted after the
\* function deleting the Metavisor volume was registered, Cleanup calls that
\* function, and calls it after every function registered later.
C35_DeleteMVAfterLaterCompensations ==
    EndedAfterQueueMV =>
        /\ \E j \in DOMAIN ran : ran[j] = "delMV"
        /\ \A i \in DOMAIN registered : \A j \in (i + 1)..Len(registered) :
              registered[i].f.id = "delMV" => RanBeforeMV(registered[j].f.id)

TermRegistered == \E i \in DOMAIN registered : registered[i].f.id = "termInst"

TermInvoked == \E i \in DOMAIN ran : ran[i] = "termInst"

ImageObservedAvailable ==
    \E i \in DOMAIN apiLog : apiLog[i] = <<"AwaitImageAvailable", "image", "nil">>

\* C36: in wrap.Image, once the temporary instance is launched and the
\* function terminating it is registered, that function is called whatever
\* the outcome: it has been called when the top-level call has returned. When
\* the call succeeds, it is called only after AwaitImageAvailable has
\* returned nil.
C36_TemporaryInstanceAlwaysTerminated ==
    [][/\ (kind = "image" /\ mpc' = "returned" /\ TermRegistered') => TermInvoked'
       /\ (kind = "image" /\ cleanupArg /\ ~TermInvoked /\ TermInvoked') =>
             ImageObservedAvailable]_vars

\* Place of each function of the log-retrieval saga in the order of the
\* unwind: the reverse of the order in which awsShareLogs queues them.
UnwindRank(id) ==
    CASE id = "termInst" -> 1
      [] id = "delSnap" -> 2
      [] id = "rmFile" -> 3
      [] id = "rmKey" -> 4

\* C37: in share-logs on an instance with no key supplied, Cleanup calls the
\* functions in this order: terminate the temporary instance, delete the
\* temporary snapshot, remove the private-key file, delete the key pair.
C37_LogsUnwindOrder ==
    (kind = "logs" /\ conf.targetIsInstance /\ ~conf.keyGiven) =>
        \A i, j \in DOMAIN ran : i < j => UnwindRank(ran[i]) < UnwindRank(ran[j])

MaxInterrupts == 2

\* the functions main passes to runWithInterrupt
Commands == {"showVersion", "listMetavisors", "wrapInstance", "wrapAMI", "shareLogs"}

InitRun ==
    /\ StackInit
    /\ ApiInit
    /\ ConcIdle
    /\ SagaIdle
    /\ WaitIdle
    /\ InfoIdle
    /\ FormatIdle
    /\ command \in Commands
    /\ rwPc = "go"
    /\ fPc = "none"
    /\ fErr = "nil"
    /\ wg = 0
    /\ runCancelled = FALSE
    /\ exited = FALSE
    /\ signals = 0
    /\ interrupted = FALSE

unchangedByRun == <<stackVars, apiVars, concVars, sagaVars, waitVars, infoVars, fmtVars>>

\* The process runs and main has not returned from runWithInterrupt (main
\* returns right after it, which ends the process).
Alive == ~exited /\ rwPc # "returned"

\* context.WithCancel, signal.Notify, the two unbuffered channels, and the go
\* statement; runWithInterrupt goes to its select
RunGo ==
    /\ Alive
    /\ rwPc = "go"
    /\ rwPc' = "select"
    /\ fPc' = "add"
    /\ UNCHANGED <<command, fErr, wg, runCancelled, exited, signals, interrupted>>
    /\ UNCHANGED unchangedByRun

\* the goroutine: wg.Add(1)
GoAdd ==
    /\ Alive
    /\ fPc = "add"
    /\ wg' = wg + 1
    /\ fPc' = "call"
    /\ UNCHANGED <<command, rwPc, fErr, runCancelled, exited, signals, interrupted>>
    /\ UNCHANGED unchangedByRun

\* What the call made by f (mv.GetInfo, mv.GetMetavisorVersions,
\* wrap.Instance, wrap.Image, share.LogsAWS) can return: nil or an error of
\* its own, and, when ctx is cancelled, the error of the interruption. A call
\* whose result is ready when ctx is cancelled may still return nil.
CallErrors(ctxDone) == {"nil", "err"} \cup (IF ctxDone THEN {"ErrInterrupted"} ELSE {})

\* f's call returns
FCall ==
    /\ Alive
    /\ fPc = "call"
    /\ fErr' \in CallErrors(runCancelled)
    /\ fPc' = "ret"
    /\ UNCHANGED <<command, rwPc, wg, runCancelled, exited, signals, interrupted>>
    /\ UNCHANGED unchangedByRun

\* f exits the process instead of returning: showVersion ends in
\* os.Exit(exit), the others call logging.Fatal on an error.
FExits(c, err) == c = "showVersion" \/ err # "nil"

\* the rest of f: it exits the process, or prints and returns, and the
\* goroutine goes to its send on done
FFinish ==
    /\ Alive
    /\ fPc = "ret"
    /\ IF FExits(command, fErr)
       THEN exited' = TRUE /\ fPc' = fPc
       ELSE exited' = exited /\ fPc' = "send"
    /\ UNCHANGED <<command, rwPc, fErr, wg, runCancelled, signals, interrupted>>
    /\ UNCHANGED unchangedByRun

\* case <-done: done is unbuffered, the send and the receive happen together
\* and the goroutine ends
SelectDone ==
    /\ Alive
    /\ rwPc = "select"
    /\ fPc = "send"
    /\ rwPc' = "caseDone"
    /\ fPc' = "end"
    /\ UNCHANGED <<command, fErr, wg, runCancelled, exited, signals, interrupted>>
    /\ UNCHANGED unchangedByRun

\* wg.Done() in the done case
WgDone ==
    /\ Alive
    /\ rwPc = "caseDone"
    /\ wg' = wg - 1
    /\ rwPc' = "wait"
    /\ UNCHANGED <<command, fPc, fErr, runCancelled, exited, signals, interrupted>>
    /\ UNCHANGED unchangedByRun

\* The user sends an interrupt. signal.Notify does not block on the
\* unbuffered channel: the signal is received when runWithInterrupt is in
\* its select (case <-interrupt) and dropped otherwise.
Interrupt ==
    /\ Alive
    /\ rwPc # "go"
    /\ signals < MaxInterrupts
    /\ signals' = signals + 1
    /\ IF rwPc = "select"
       THEN rwPc' = "caseInterrupt" /\ interrupted' = TRUE
       ELSE UNCHANGED <<rwPc, interrupted>>
    /\ UNCHANGED <<command, fPc, fErr, wg, runCancelled, exited>>
    /\ UNCHANGED unchangedByRun

\* the interrupt case: logging.Warning, cancel()
CaseInterrupt ==
    /\ Alive
    /\ rwPc = "caseInterrupt"
    /\ runCancelled' = TRUE
    /\ rwPc' = "wait"
    /\ UNCHANGED <<command, fPc, fErr, wg, exited, signals, interrupted>>
    /\ UNCHANGED unchangedByRun

\* wg.Wait() returns when the counter is zero; return, and the deferred
\* cancel()
WgWait ==
    /\ Alive
    /\ rwPc = "wait"
    /\ wg = 0
    /\ rwPc' = "returned"
    /\ runCancelled' = TRUE
    /\ UNCHANGED <<command, fPc, fErr, wg, exited, signals, interrupted>>
    /\ UNCHANGED unchangedByRun

\* the steps of the program itself
RunStep ==
    \/ RunGo
    \/ GoAdd
    \/ FCall
    \/ FFinish
    \/ SelectDone
    \/ WgDone
    \/ CaseInterrupt
    \/ WgWait

NextRun ==
    \/ RunStep
    \/ Interrupt

SpecRun == InitRun /\ [][NextRun]_vars

\* both goroutines keep running as long as they have a step to take
SpecRunFair == InitRun /\ [][NextRun]_vars /\ WF_vars(RunStep)

\* C39: whatever the interleaving of the command's completion and the user's
\* interrupt, once the select has received an interrupt the process exits
\* or runWithInterrupt returns.
C39_ReturnsOrExitsAfterInterrupt ==
    interrupted ~> (exited \/ rwPc = "returned")

====
